---- MODULE Spec2Model ----
(***************************************************************************)
(* A model of the rags repository:                                         *)
(*   - the primitive splitters (BytesSplitter, TokenSplitter),             *)
(*   - the chunk constraint enforcer (AbstractFileSplitter.create_chunks), *)
(*   - the two settings modules and the setters of the size limits,        *)
(*   - the PDF header splitting (PdfFileSplitter._extract_header_chunks),  *)
(*   - the ingestion orchestrator (RagDriver.fill_rag).                    *)
(*                                                                         *)
(* Text.  A Python str is modelled as a run-length sequence of characters. *)
(* A run [c, lo, n] stands for the n characters lo, lo+1, ..., lo+n-1 of   *)
(* the loaded document (their positions in the document), all of character *)
(* class c.  The class fixes how UTF-8 and the tokenizer see a character:  *)
(*   "A"  1 byte per character, 1 token per character                      *)
(*   "S"  1 byte per character, 8 characters per token (whitespace runs)   *)
(*   "U"  3 bytes per character, 2 characters per token                    *)
(*   "C"  3 bytes per character, 1 token per character                     *)
(*   "R"  U+FFFD, the replacement character that decode(errors="replace")  *)
(*        puts in place of an invalid byte sequence: 3 bytes, 1 token.     *)
(* Replacement characters are no characters of the document: lo = 0.       *)
(* A text is kept canonical: no empty run, adjacent runs of one class are  *)
(* merged when they are contiguous in the document (or are both "R").      *)
(***************************************************************************)
EXTENDS Integers, Sequences, FiniteSets, TLC

VARIABLES
    self,            \* the AbstractFileSplitter object (fields set by __init__)
    document,        \* what load_file/split_file yield: the structural chunk texts
    pc,              \* position of create_chunks
    list_of_chunks,  \* create_chunks' local list_of_chunks (FileChunk objects)
    heap,            \* the metadata dicts, by reference: heap[ref] is a dict
    calls,           \* the calls made so far, in order
    prim,            \* a primitive splitter called on its own (SpecPrim)
    global_settings,         \* the attributes of module rags.global_settings
    chunks_global_settings,  \* the attributes of module rags.chunks.global_settings
    splitters,       \* the file splitters constructed so far (SpecSettings)
    pdf,             \* a call of _extract_header_chunks (SpecPdf)
    fs,              \* what the file system holds at fill_rag's source_path
    rag,             \* fill_rag: its position and its locals (SpecRag)
    vector_database, \* the vector store behind RagDriver.vector_database
    s3,              \* the S3 Vectors service and a call of S3VectorBucketIndex (SpecS3)
    vector_item      \* a call of VectorItem.create_from_file_chunk (SpecItem)

settingsVars == <<global_settings, chunks_global_settings, splitters>>
pdfVars == <<pdf>>
ragVars == <<fs, rag, vector_database>>
chunkVars == <<self, document, pc, list_of_chunks, heap>>
storeVars == <<s3, vector_item>>

vars == <<chunkVars, calls, prim, settingsVars, pdfVars, storeVars, ragVars>>

(***************************************************************************)
(* Bounds of the model.                                                    *)
(***************************************************************************)
MaxChunks == 2   \* structural chunks per document
MaxPrefix == 2   \* length of the short run of 1-byte characters that starts a text
MaxWindow == 4   \* largest chunk_size of a primitive splitter built by hand
MaxChars == 6    \* characters of the main run of a short text
MaxCalls == 3    \* calls of one session (setters and constructors, store methods, items made)
MaxSpans == 3    \* spans and image blocks of a PDF
MaxFiles == 2    \* files under a source directory
MaxFileChunks == 2  \* short structural chunks of one file
MaxBatch == 2    \* largest overridden BATCH_VECTOR_UPSERT_SIZE
MaxResults == 2  \* raw results a vector store hands back for one query

(***************************************************************************)
(* Program constants.                                                      *)
(***************************************************************************)
EMBEDDING_MODEL_TOKENS_LIMIT == 8192
S3_VECTOR_INDEX_METADATA_BYTES_LIMIT == 40960
TOKEN_MARGIN == 2000
BYTES_METADATA_RESERVE == 1024
BYTES_MARGIN == 2000
ENFORCER_OVERLAP == 1000
DEFAULT_OVERLAP == 1000             \* bytes_text_splitter.py
DEFAULT_CHUNK_SIZE == 5000          \* bytes_text_splitter.py
TOKEN_DEFAULT_OVERLAP == 1000       \* token_text_splitter.py (never used there)
TOKEN_DEFAULT_CHUNK_SIZE == 5000    \* token_text_splitter.py
BATCH_VECTOR_UPSERT_SIZE == 40      \* rags/global_settings.py
TOKENS_LIMIT == 8192                \* rags/chunks/global_settings.py
BYTES_LIMIT == 40960                \* rags/chunks/global_settings.py
MIN_HEADER_FONT == 14               \* pdf_splitter.py

NUM_TOKENS_KEY == "num_tokens"
NUM_BYTES_KEY == "num_bytes"
PATH_TO_FILE == "doc"

(***************************************************************************)
(* Characters, UTF-8 and the tokenizer.                                    *)
(***************************************************************************)
\* UTF-8 bytes of one character of class c (str.encode("utf-8")).
BytesPerChar(c) ==
    CASE c = "A" -> 1
      [] c = "S" -> 1
      [] c = "U" -> 3
      [] c = "C" -> 3
      [] c = "R" -> 3

\* Characters of class c that the tokenizer merges into one token.
CharsPerToken(c) ==
    CASE c = "A" -> 1
      [] c = "S" -> 8
      [] c = "U" -> 2
      [] c = "C" -> 1
      [] c = "R" -> 1

CeilDiv(a, b) == (a + b - 1) \div b
Min(a, b) == IF a < b THEN a ELSE b
Max(a, b) == IF a > b THEN a ELSE b

\* String concatenation of one more run, keeping the text canonical.
Cat(t, r) ==
    IF r.n = 0 THEN t
    ELSE IF /\ t # <<>>
            /\ t[Len(t)].c = r.c
            /\ (r.c = "R" \/ t[Len(t)].lo + t[Len(t)].n = r.lo)
         THEN [t EXCEPT ![Len(t)].n = @ + r.n]
         ELSE Append(t, r)

Replacement(k) == [c |-> "R", lo |-> 0, n |-> k]

RECURSIVE count_chars(_)
count_chars(text) ==
    IF text = <<>> THEN 0 ELSE Head(text).n + count_chars(Tail(text))

\* len(text.encode("utf-8"))
RECURSIVE count_bytes(_)
count_bytes(text) ==
    IF text = <<>> THEN 0
    ELSE Head(text).n * BytesPerChar(Head(text).c) + count_bytes(Tail(text))

\* len(self.encoder.encode(text)): every run is tokenized from its first
\* character on, in groups of CharsPerToken characters; a shorter rest is a
\* token of its own.
RECURSIVE count_tokens(_)
count_tokens(text) ==
    IF text = <<>> THEN 0
    ELSE CeilDiv(Head(text).n, CharsPerToken(Head(text).c)) + count_tokens(Tail(text))

(***************************************************************************)
(* BytesSplitter (string_splitters/bytes_text_splitter.py).                *)
(***************************************************************************)
\* data[start:end].decode("utf-8", errors="replace") for data =
\* input_text.encode("utf-8"), run by run; off is the byte offset of the
\* first run of text.  Of a character cut by the window, every continuation
\* byte left at the window's start decodes to one U+FFFD, and the truncated
\* head of a character left at the window's end decodes to one U+FFFD.
RECURSIVE DecodeWindowFrom(_, _, _, _, _)
DecodeWindowFrom(text, off, start, end, acc) ==
    IF text = <<>> THEN acc
    ELSE LET r    == Head(text)
             w    == BytesPerChar(r.c)
             size == r.n * w
             x    == Max(start, off) - off
             y    == Min(end, off + size) - off
             cf   == CeilDiv(x, w)
             cl   == y \div w
             lo   == IF r.c = "R" THEN 0 ELSE r.lo + cf
             out  == IF x >= y THEN acc
                     ELSE IF cf > cl THEN Cat(acc, Replacement(y - x))
                     ELSE Cat(Cat(Cat(acc, Replacement(cf * w - x)),
                                  [c |-> r.c, lo |-> lo, n |-> cl - cf]),
                              Replacement(IF y > cl * w THEN 1 ELSE 0))
         IN DecodeWindowFrom(Tail(text), off + size, start, end, out)

DecodeWindow(text, start, end) == DecodeWindowFrom(text, 0, start, end, <<>>)

\* Mutant of range: stop is included.
RECURSIVE Range_Inclusive(_, _, _)
Range_Inclusive(start, stop, step) ==
    IF step <= 0 \/ start > stop THEN <<>>
    ELSE <<start>> \o Range_Inclusive(start + step, stop, step)

\* list(range(start, stop, step)) for step > 0; for step < 0 and
\* start <= stop the range is empty.  (step = 0 raises ValueError.)
RECURSIVE Range(_, _, _)
Range(start, stop, step) ==
    IF step <= 0 \/ start >= stop THEN <<>>
    ELSE <<start>> \o Range(start + step, stop, step)

\* enumerate(): wrap each window with metadata {"chunk_num": i}, i from 0.
Enumerate(text_chunks) ==
    [i \in 1..Len(text_chunks) |->
        [content |-> text_chunks[i], metadata |-> [chunk_num |-> i - 1]]]

\* BytesSplitter.__init__
BytesSplitter(chunk_size, chunk_overlap) ==
    [chunk_size |-> chunk_size, chunk_overlap |-> chunk_overlap]

\* range(0, len(data), step) raises ValueError when step is 0.
BytesSplitter_raises(splitter) == splitter.chunk_size - splitter.chunk_overlap = 0

\* Mutant of split_text: a window ends where the next one starts (the overlap
\* is dropped).
BytesSplitter_split_text_NoOverlap(splitter, input_text) ==
    LET len_data == count_bytes(input_text)
        step     == splitter.chunk_size - splitter.chunk_overlap
        starts   == Range(0, len_data, step)
        text_chunks ==
            [i \in 1..Len(starts) |->
                DecodeWindow(input_text, starts[i], starts[i] + step)]
    IN Enumerate(text_chunks)

\* BytesSplitter.split_text, when it does not raise.
BytesSplitter_split_text(splitter, input_text) ==
    LET len_data == count_bytes(input_text)
        step     == splitter.chunk_size - splitter.chunk_overlap
        starts   == Range(0, len_data, step)
        text_chunks ==
            [i \in 1..Len(starts) |->
                DecodeWindow(input_text, starts[i], starts[i] + splitter.chunk_size)]
    IN Enumerate(text_chunks)

(***************************************************************************)
(* TokenSplitter (string_splitters/token_text_splitter.py), a wrapper of   *)
(* langchain_text_splitters.TokenTextSplitter.                             *)
(***************************************************************************)
\* tokenizer.decode(input_ids[a:b]) for input_ids = tokenizer.encode(text);
\* off is the token offset of the first run of text.
RECURSIVE TokenWindowFrom(_, _, _, _, _)
TokenWindowFrom(text, off, a, b, acc) ==
    IF text = <<>> THEN acc
    ELSE LET r    == Head(text)
             g    == CharsPerToken(r.c)
             ntok == CeilDiv(r.n, g)
             x    == Max(a, off) - off
             y    == Min(b, off + ntok) - off
             lo   == IF r.c = "R" THEN 0 ELSE r.lo + x * g
             out  == IF x >= y THEN acc
                     ELSE Cat(acc, [c |-> r.c, lo |-> lo, n |-> Min(r.n, y * g) - x * g])
         IN TokenWindowFrom(Tail(text), off + ntok, a, b, out)

TokenWindow(text, a, b) == TokenWindowFrom(text, 0, a, b, <<>>)

\* TokenSplitter.__init__: the window and overlap handed to TokenTextSplitter.
TokenSplitter(chunk_size, chunk_overlap) ==
    [chunk_size |-> chunk_size, chunk_overlap |-> chunk_overlap]

\* The loop of langchain's split_text_on_tokens for a step > 0: one window
\* per start, the last one being the first that reaches the end of input_ids.
RECURSIVE TokenSplits(_, _, _, _)
TokenSplits(text, len_ids, start_idx, splitter) ==
    IF start_idx >= len_ids THEN <<>>
    ELSE LET cur_idx == Min(start_idx + splitter.chunk_size, len_ids)
             decoded == TokenWindow(text, start_idx, cur_idx)
         IN IF cur_idx = len_ids THEN <<decoded>>
            ELSE <<decoded>> \o
                 TokenSplits(text, len_ids,
                             start_idx + splitter.chunk_size - splitter.chunk_overlap,
                             splitter)

\* TokenSplitter.split_text, when TokenTextSplitter.split_text returns
\* (chunk_overlap < chunk_size).
TokenSplitter_split_text(splitter, input_text) ==
    Enumerate(TokenSplits(input_text, count_tokens(input_text), 0, splitter))

(***************************************************************************)
(* AbstractFileSplitter (abstract_splitter.py).                            *)
(* A FileChunk is [content, metadata], metadata being a reference into     *)
(* heap.  A dict is a function from its keys to their values.              *)
(***************************************************************************)
NoSplitter == [chunk_size |-> 0, chunk_overlap |-> 0, none |-> TRUE]

\* Mutant of __init__: one overlap is reserved, not two.
AbstractFileSplitter_OverlapOnce(path_to_file, include_token_limit, include_byte_limit) ==
    LET token_limit == global_settings.EMBEDDING_MODEL_TOKENS_LIMIT
        byte_limit  == global_settings.S3_VECTOR_INDEX_METADATA_BYTES_LIMIT
    IN [path_to_file   |-> path_to_file,
        token_limit    |-> token_limit,
        byte_limit     |-> byte_limit,
        token_splitter |->
            IF include_token_limit
            THEN [chunk_size |-> token_limit - ENFORCER_OVERLAP,
                  chunk_overlap |-> ENFORCER_OVERLAP, none |-> FALSE]
            ELSE NoSplitter,
        bytes_splitter |->
            IF include_byte_limit
            THEN [chunk_size |-> byte_limit - BYTES_METADATA_RESERVE - ENFORCER_OVERLAP,
                  chunk_overlap |-> ENFORCER_OVERLAP, none |-> FALSE]
            ELSE NoSplitter]

\* Mutant of __init__: the byte window is the byte limit itself, nothing reserved.
AbstractFileSplitter_NoReserve(path_to_file, include_token_limit, include_byte_limit) ==
    LET token_limit == global_settings.EMBEDDING_MODEL_TOKENS_LIMIT
        byte_limit  == global_settings.S3_VECTOR_INDEX_METADATA_BYTES_LIMIT
    IN [path_to_file   |-> path_to_file,
        token_limit    |-> token_limit,
        byte_limit     |-> byte_limit,
        token_splitter |->
            IF include_token_limit
            THEN [chunk_size |-> token_limit - TOKEN_MARGIN,
                  chunk_overlap |-> ENFORCER_OVERLAP, none |-> FALSE]
            ELSE NoSplitter,
        bytes_splitter |->
            IF include_byte_limit
            THEN [chunk_size |-> byte_limit,
                  chunk_overlap |-> ENFORCER_OVERLAP, none |-> FALSE]
            ELSE NoSplitter]

\* AbstractFileSplitter.__init__: the limits are the attributes of
\* rags.global_settings (the module imported at line 8) at construction.
AbstractFileSplitter(path_to_file, include_token_limit, include_byte_limit) ==
    LET token_limit == global_settings.EMBEDDING_MODEL_TOKENS_LIMIT
        byte_limit  == global_settings.S3_VECTOR_INDEX_METADATA_BYTES_LIMIT
    IN [path_to_file   |-> path_to_file,
        token_limit    |-> token_limit,
        byte_limit     |-> byte_limit,
        token_splitter |->
            IF include_token_limit
            THEN TokenSplitter(token_limit - TOKEN_MARGIN, ENFORCER_OVERLAP)
                     @@ [none |-> FALSE]
            ELSE NoSplitter,
        bytes_splitter |->
            IF include_byte_limit
            THEN BytesSplitter(byte_limit - BYTES_METADATA_RESERVE - BYTES_MARGIN,
                               ENFORCER_OVERLAP) @@ [none |-> FALSE]
            ELSE NoSplitter]

FileChunk(content, metadata) == [content |-> content, metadata |-> metadata]

\* dict[key] = value
SetItem(dict, key, value) == (key :> value) @@ dict

\* Mutant of deepcopy: the dict itself is handed on, not a copy.
Deepcopy_Shared(h, ref) == [heap |-> h, ref |-> ref]

\* deepcopy(metadata): a new dict with the same items; its reference is the
\* next free one.
Deepcopy(h, ref) == [heap |-> Append(h, h[ref]), ref |-> Len(h) + 1]

\* _calculate_metadata_statistics: writes both sizes into the dict each
\* chunk refers to; returns the heap after the writes.
RECURSIVE _calculate_metadata_statistics(_, _)
_calculate_metadata_statistics(file_chunks, h) ==
    IF file_chunks = <<>> THEN h
    ELSE LET chunk == Head(file_chunks)
             d1 == SetItem(h[chunk.metadata], NUM_TOKENS_KEY, count_tokens(chunk.content))
             d2 == SetItem(d1, NUM_BYTES_KEY, count_bytes(chunk.content))
         IN _calculate_metadata_statistics(Tail(file_chunks),
                                           [h EXCEPT ![chunk.metadata] = d2])

\* [FileChunk(content=sub_chunk.content, metadata=deepcopy(chunk.metadata))
\*  for sub_chunk in sub_chunks]
RECURSIVE NewFileChunks(_, _, _, _)
NewFileChunks(sub_chunks, chunk, h, acc) ==
    IF sub_chunks = <<>> THEN [chunks |-> acc, heap |-> h]
    ELSE LET copy == Deepcopy(h, chunk.metadata)
         IN NewFileChunks(Tail(sub_chunks), chunk, copy.heap,
                          Append(acc, FileChunk(Head(sub_chunks).content, copy.ref)))

\* Mutant of the loop of _filter_by_bytes: the sub-chunks keep the sizes copied
\* from their parent (no recomputation).
RECURSIVE FilterByBytesLoop_NoRecalc(_, _, _, _)
FilterByBytesLoop_NoRecalc(this, file_chunks, filtered, h) ==
    IF file_chunks = <<>> THEN [chunks |-> filtered, heap |-> h]
    ELSE LET chunk == Head(file_chunks)
         IN IF h[chunk.metadata][NUM_BYTES_KEY] <= this.byte_limit
            THEN FilterByBytesLoop_NoRecalc(this, Tail(file_chunks),
                                            Append(filtered, chunk), h)
            ELSE LET sub_chunks == BytesSplitter_split_text(this.bytes_splitter, chunk.content)
                     new == NewFileChunks(sub_chunks, chunk, h, <<>>)
                 IN FilterByBytesLoop_NoRecalc(this, Tail(file_chunks),
                                               filtered \o new.chunks, new.heap)

\* The loop of _filter_by_bytes; filtered is filtered_chunks so far.
RECURSIVE FilterByBytesLoop(_, _, _, _)
FilterByBytesLoop(this, file_chunks, filtered, h) ==
    IF file_chunks = <<>> THEN [chunks |-> filtered, heap |-> h]
    ELSE LET chunk == Head(file_chunks)
         IN IF h[chunk.metadata][NUM_BYTES_KEY] <= this.byte_limit
            THEN FilterByBytesLoop(this, Tail(file_chunks), Append(filtered, chunk), h)
            ELSE LET sub_chunks == BytesSplitter_split_text(this.bytes_splitter, chunk.content)
                     new == NewFileChunks(sub_chunks, chunk, h, <<>>)
                     h2  == _calculate_metadata_statistics(new.chunks, new.heap)
                 IN FilterByBytesLoop(this, Tail(file_chunks), filtered \o new.chunks, h2)

_filter_by_bytes(this, file_chunks, h) ==
    IF this.bytes_splitter.none THEN [chunks |-> file_chunks, heap |-> h]
    ELSE FilterByBytesLoop(this, file_chunks, <<>>, h)

\* Mutant of the loop of _filter_by_tokens: a chunk within the limit is
\* appended as a new FileChunk with a copy of its metadata.
RECURSIVE FilterByTokensLoop_CopyAll(_, _, _, _)
FilterByTokensLoop_CopyAll(this, file_chunks, filtered, h) ==
    IF file_chunks = <<>> THEN [chunks |-> filtered, heap |-> h]
    ELSE LET chunk == Head(file_chunks)
         IN IF h[chunk.metadata][NUM_TOKENS_KEY] <= this.token_limit
            THEN LET copy == Deepcopy(h, chunk.metadata)
                 IN FilterByTokensLoop_CopyAll(this, Tail(file_chunks),
                        Append(filtered, FileChunk(chunk.content, copy.ref)), copy.heap)
            ELSE LET sub_chunks == TokenSplitter_split_text(this.token_splitter, chunk.content)
                     new == NewFileChunks(sub_chunks, chunk, h, <<>>)
                     h2  == _calculate_metadata_statistics(new.chunks, new.heap)
                 IN FilterByTokensLoop_CopyAll(this, Tail(file_chunks),
                                               filtered \o new.chunks, h2)

\* Mutant of the loop of _filter_by_tokens: num_tokens is compared with the
\* byte limit.
RECURSIVE FilterByTokensLoop_ByteLimit(_, _, _, _)
FilterByTokensLoop_ByteLimit(this, file_chunks, filtered, h) ==
    IF file_chunks = <<>> THEN [chunks |-> filtered, heap |-> h]
    ELSE LET chunk == Head(file_chunks)
         IN IF h[chunk.metadata][NUM_TOKENS_KEY] <= this.byte_limit
            THEN FilterByTokensLoop_ByteLimit(this, Tail(file_chunks),
                                              Append(filtered, chunk), h)
            ELSE LET sub_chunks == TokenSplitter_split_text(this.token_splitter, chunk.content)
                     new == NewFileChunks(sub_chunks, chunk, h, <<>>)
                     h2  == _calculate_metadata_statistics(new.chunks, new.heap)
                 IN FilterByTokensLoop_ByteLimit(this, Tail(file_chunks),
                                                 filtered \o new.chunks, h2)

\* Mutant of line 201 of _filter_by_tokens: the sub-chunks are put at the
\* head of filtered_chunks.
RECURSIVE FilterByTokensLoop_AtHead(_, _, _, _)
FilterByTokensLoop_AtHead(this, file_chunks, filtered, h) ==
    IF file_chunks = <<>> THEN [chunks |-> filtered, heap |-> h]
    ELSE LET chunk == Head(file_chunks)
         IN IF h[chunk.metadata][NUM_TOKENS_KEY] <= this.token_limit
            THEN FilterByTokensLoop_AtHead(this, Tail(file_chunks),
                                           Append(filtered, chunk), h)
            ELSE LET sub_chunks == TokenSplitter_split_text(this.token_splitter, chunk.content)
                     new == NewFileChunks(sub_chunks, chunk, h, <<>>)
                     h2  == _calculate_metadata_statistics(new.chunks, new.heap)
                 IN FilterByTokensLoop_AtHead(this, Tail(file_chunks),
                                              new.chunks \o filtered, h2)

\* The loop of _filter_by_tokens.
RECURSIVE FilterByTokensLoop(_, _, _, _)
FilterByTokensLoop(this, file_chunks, filtered, h) ==
    IF file_chunks = <<>> THEN [chunks |-> filtered, heap |-> h]
    ELSE LET chunk == Head(file_chunks)
         IN IF h[chunk.metadata][NUM_TOKENS_KEY] <= this.token_limit
            THEN FilterByTokensLoop(this, Tail(file_chunks), Append(filtered, chunk), h)
            ELSE LET sub_chunks == TokenSplitter_split_text(this.token_splitter, chunk.content)
                     new == NewFileChunks(sub_chunks, chunk, h, <<>>)
                     h2  == _calculate_metadata_statistics(new.chunks, new.heap)
                 IN FilterByTokensLoop(this, Tail(file_chunks), filtered \o new.chunks, h2)

_filter_by_tokens(this, file_chunks, h) ==
    IF this.token_splitter.none THEN [chunks |-> file_chunks, heap |-> h]
    ELSE FilterByTokensLoop(this, file_chunks, <<>>, h)

\* split_file of the concrete splitters: one FileChunk per structural chunk
\* text, each with a dict of its own that holds the provenance.
split_file(this, input_document) ==
    [chunks |-> [i \in 1..Len(input_document) |-> FileChunk(input_document[i], i)],
     heap   |-> [i \in 1..Len(input_document) |-> [source |-> this.path_to_file]]]

\* Mutant of create_chunks: the token pass runs before the byte pass.
create_chunks_body_TokensFirst ==
    <<"_calculate_metadata_statistics", "_filter_by_tokens", "_filter_by_bytes">>

\* The statements of create_chunks after the emptiness check (lines 246-248),
\* in program order.
create_chunks_body ==
    <<"_calculate_metadata_statistics", "_filter_by_bytes", "_filter_by_tokens">>

(***************************************************************************)
(* The inputs of the model.                                                *)
(***************************************************************************)
InputClasses == {"A", "S", "U", "C"}
MultiByteClasses == {"U", "C"}
Lens == {9000, 41000}

\* A shape is a text without its place in the document: a main run of one
\* class, after an optional short run of 1-byte characters when the main
\* run is of multi-byte characters (the short run shifts their alignment).
Shape(p, c, n) ==
    (IF p = 0 THEN <<>> ELSE <<[c |-> "A", n |-> p]>>) \o <<[c |-> c, n |-> n]>>

Shapes ==
    {<<>>}
    \cup {Shape(0, c, n) : c \in InputClasses, n \in Lens}
    \cup {Shape(p, c, n) : p \in 1..MaxPrefix, c \in MultiByteClasses, n \in Lens}

\* The text of a shape whose first character is character base of the document.
RECURSIVE Layout(_, _, _)
Layout(shape, base, acc) ==
    IF shape = <<>> THEN acc
    ELSE Layout(Tail(shape), base + Head(shape).n,
                Cat(acc, [c |-> Head(shape).c, lo |-> base, n |-> Head(shape).n]))

RECURSIVE Layouts(_, _, _)
Layouts(shapes, base, acc) ==
    IF shapes = <<>> THEN acc
    ELSE LET text == Layout(Head(shapes), base, <<>>)
         IN Layouts(Tail(shapes), base + count_chars(text), Append(acc, text))

Documents ==
    {Layouts(shapes, 0, <<>>) : shapes \in UNION {[1..k -> Shapes] : k \in 0..MaxChunks}}

IdlePrim == [status |-> "idle"]
IdlePdf == [status |-> "idle"]
IdleRag == [pc |-> "idle"]
IdleS3 == [status |-> "idle"]
IdleItem == [status |-> "idle"]
NoSource == [kind |-> "none", files |-> <<>>]
NoIndex == [exists |-> FALSE, records |-> <<>>]

\* rags/global_settings.py as imported: batch size and the two limits.
GlobalSettings(batch) ==
    [BATCH_VECTOR_UPSERT_SIZE |-> batch,
     EMBEDDING_MODEL_TOKENS_LIMIT |-> EMBEDDING_MODEL_TOKENS_LIMIT,
     S3_VECTOR_INDEX_METADATA_BYTES_LIMIT |-> S3_VECTOR_INDEX_METADATA_BYTES_LIMIT]

\* rags/chunks/global_settings.py as imported.
ChunksGlobalSettings == [TOKENS_LIMIT |-> TOKENS_LIMIT, BYTES_LIMIT |-> BYTES_LIMIT]

\* The modules as imported, no file splitter constructed yet.
SettingsImported ==
    /\ global_settings = GlobalSettings(BATCH_VECTOR_UPSERT_SIZE)
    /\ chunks_global_settings = ChunksGlobalSettings
    /\ splitters = <<>>

\* No PDF extraction, no ingestion and no call of the vector store under way.
NoPdfNoRag ==
    /\ pdf = IdlePdf
    /\ fs = NoSource
    /\ rag = IdleRag
    /\ vector_database = NoIndex
    /\ s3 = IdleS3
    /\ vector_item = IdleItem
At(at, i) == [at |-> at, i |-> i]

(***************************************************************************)
(* create_chunks, statement by statement.                                  *)
(***************************************************************************)
Init ==
    /\ SettingsImported
    /\ NoPdfNoRag
    /\ \E include_token_limit \in BOOLEAN, include_byte_limit \in BOOLEAN :
          self = AbstractFileSplitter(PATH_TO_FILE, include_token_limit, include_byte_limit)
    /\ document \in Documents
    /\ pc = At("start", 0)
    /\ list_of_chunks = <<>>
    /\ heap = <<>>
    /\ calls = <<>>
    /\ prim = IdlePrim

\* Mutant of lines 241-244: the empty list is not checked.
LoadAndSplit_NoCheck ==
    /\ pc.at = "start"
    /\ LET s == split_file(self, document)
       IN /\ list_of_chunks' = s.chunks
          /\ heap' = s.heap
          /\ pc' = At("body", 1)
    /\ calls' = calls \o <<"load_file", "split_file">>
    /\ UNCHANGED <<self, document, prim>>
    /\ UNCHANGED <<settingsVars, pdfVars, storeVars, ragVars>>

\* Lines 241-244: load_file, split_file, and the ValueError on an empty list.
LoadAndSplit ==
    /\ pc.at = "start"
    /\ LET s == split_file(self, document)
       IN /\ list_of_chunks' = s.chunks
          /\ heap' = s.heap
          /\ pc' = IF s.chunks = <<>> THEN At("raised", 0) ELSE At("body", 1)
    /\ calls' = calls \o <<"load_file", "split_file">>
    /\ UNCHANGED <<self, document, prim>>
    /\ UNCHANGED <<settingsVars, pdfVars, storeVars, ragVars>>

Advance == IF pc.i = Len(create_chunks_body) THEN At("returned", 0) ELSE At("body", pc.i + 1)

CalculateStatistics ==
    /\ pc.at = "body"
    /\ create_chunks_body[pc.i] = "_calculate_metadata_statistics"
    /\ heap' = _calculate_metadata_statistics(list_of_chunks, heap)
    /\ calls' = Append(calls, "_calculate_metadata_statistics")
    /\ pc' = Advance
    /\ UNCHANGED <<self, document, list_of_chunks, prim>>
    /\ UNCHANGED <<settingsVars, pdfVars, storeVars, ragVars>>

FilterByBytes ==
    /\ pc.at = "body"
    /\ create_chunks_body[pc.i] = "_filter_by_bytes"
    /\ LET r == _filter_by_bytes(self, list_of_chunks, heap)
       IN /\ list_of_chunks' = r.chunks
          /\ heap' = r.heap
    /\ calls' = Append(calls, "_filter_by_bytes")
    /\ pc' = Advance
    /\ UNCHANGED <<self, document, prim>>
    /\ UNCHANGED <<settingsVars, pdfVars, storeVars, ragVars>>

FilterByTokens ==
    /\ pc.at = "body"
    /\ create_chunks_body[pc.i] = "_filter_by_tokens"
    /\ LET r == _filter_by_tokens(self, list_of_chunks, heap)
       IN /\ list_of_chunks' = r.chunks
          /\ heap' = r.heap
    /\ calls' = Append(calls, "_filter_by_tokens")
    /\ pc' = Advance
    /\ UNCHANGED <<self, document, prim>>
    /\ UNCHANGED <<settingsVars, pdfVars, storeVars, ragVars>>

Next == LoadAndSplit \/ CalculateStatistics \/ FilterByBytes \/ FilterByTokens

Spec == Init /\ [][Next]_vars

(***************************************************************************)
(* A primitive splitter called on its own.                                 *)
(* prim.lib is the installed langchain_text_splitters: "guarded" releases  *)
(* raise ValueError from split_text_on_tokens when tokens_per_chunk <=     *)
(* chunk_overlap, "unguarded" (older) releases run the window loop as is.  *)
(***************************************************************************)
ShortShapes ==
    {<<>>} \cup {Shape(p, c, n) : p \in 0..MaxPrefix, c \in InputClasses, n \in 1..MaxChars}

ShortTexts == {Layout(shape, 0, <<>>) : shape \in ShortShapes}
LongTexts == {Layout(shape, 0, <<>>) : shape \in Shapes}

\* Windows built by hand: 0 <= chunk_overlap <= chunk_size <= MaxWindow.
HandWindows ==
    {w \in [chunk_size : 1..MaxWindow, chunk_overlap : 0..MaxWindow, default : {FALSE}] :
        w.chunk_overlap <= w.chunk_size}

\* BytesSplitter(): the default constructor arguments (line 15).
BytesSplitterDefault ==
    BytesSplitter(DEFAULT_CHUNK_SIZE, DEFAULT_OVERLAP) @@ [default |-> TRUE]

\* TokenSplitter(): the default constructor arguments (line 18):
\* chunk_overlap defaults to DEFAULT_CHUNK_SIZE, not to DEFAULT_OVERLAP.
TokenSplitterDefault ==
    TokenSplitter(TOKEN_DEFAULT_CHUNK_SIZE, TOKEN_DEFAULT_CHUNK_SIZE) @@ [default |-> TRUE]

PrimInputs ==
    {[kind |-> "bytes", splitter |-> w, lib |-> "guarded", input_text |-> t] :
        w \in HandWindows, t \in ShortTexts}
    \cup
    {[kind |-> "bytes", splitter |-> BytesSplitterDefault, lib |-> "guarded",
      input_text |-> t] : t \in ShortTexts \cup LongTexts}
    \cup
    {[kind |-> "tokens", splitter |-> w, lib |-> l, input_text |-> t] :
        w \in HandWindows, l \in {"guarded", "unguarded"}, t \in ShortTexts}
    \cup
    {[kind |-> "tokens", splitter |-> TokenSplitterDefault, lib |-> l,
      input_text |-> t] : l \in {"guarded", "unguarded"}, t \in ShortTexts \cup LongTexts}

InitPrim ==
    /\ SettingsImported
    /\ NoPdfNoRag
    /\ self = AbstractFileSplitter(PATH_TO_FILE, TRUE, TRUE)
    /\ document = <<>>
    /\ pc = At("idle", 0)
    /\ list_of_chunks = <<>>
    /\ heap = <<>>
    /\ calls = <<>>
    /\ \E in \in PrimInputs : prim = in @@ [status |-> "built", chunks |-> <<>>]

\* BytesSplitter.split_text
BytesSplit ==
    /\ prim.status = "built"
    /\ prim.kind = "bytes"
    /\ \/ /\ BytesSplitter_raises(prim.splitter)
          /\ prim' = [prim EXCEPT !.status = "ValueError"]
       \/ /\ ~BytesSplitter_raises(prim.splitter)
          /\ prim' = [prim EXCEPT !.status = "returned",
                                  !.chunks = BytesSplitter_split_text(prim.splitter,
                                                                      prim.input_text)]
    /\ UNCHANGED <<self, document, pc, list_of_chunks, heap, calls>>
    /\ UNCHANGED <<settingsVars, pdfVars, storeVars, ragVars>>

\* TokenSplitter.split_text
TokenSplit ==
    /\ prim.status = "built"
    /\ prim.kind = "tokens"
    /\ LET step == prim.splitter.chunk_size - prim.splitter.chunk_overlap
           len_ids == count_tokens(prim.input_text)
       IN \/ /\ step > 0
             /\ prim' = [prim EXCEPT !.status = "returned",
                                     !.chunks = TokenSplitter_split_text(prim.splitter,
                                                                         prim.input_text)]
          \/ /\ step <= 0
             /\ prim.lib = "guarded"
             /\ prim' = [prim EXCEPT !.status = "ValueError"]
          \/ /\ step <= 0
             /\ prim.lib = "unguarded"
             /\ len_ids <= prim.splitter.chunk_size
             /\ prim' = [prim EXCEPT !.status = "returned",
                                     !.chunks = Enumerate(
                                         IF len_ids = 0 THEN <<>>
                                         ELSE <<TokenWindow(prim.input_text, 0, len_ids)>>)]
          \/ /\ step <= 0
             /\ prim.lib = "unguarded"
             /\ len_ids > prim.splitter.chunk_size
             /\ prim' = [prim EXCEPT !.status = "diverges"]
    /\ UNCHANGED <<self, document, pc, list_of_chunks, heap, calls>>
    /\ UNCHANGED <<settingsVars, pdfVars, storeVars, ragVars>>

NextPrim == BytesSplit \/ TokenSplit

SpecPrim == InitPrim /\ [][NextPrim]_vars

(***************************************************************************)
(* Properties of create_chunks (specification Spec).                       *)
(***************************************************************************)
Returned == pc.at = "returned"
BothEnabled == ~self.token_splitter.none /\ ~self.bytes_splitter.none
Metadata(chunk) == heap[chunk.metadata]
Chunks == {list_of_chunks[i] : i \in DOMAIN list_of_chunks}
HasReplacement(text) == \E k \in DOMAIN text : text[k].c = "R"
OverBytes(text) == count_bytes(text) > S3_VECTOR_INDEX_METADATA_BYTES_LIMIT
OverTokens(text) == count_tokens(text) > EMBEDDING_MODEL_TOKENS_LIMIT

\* C1: with both splitters enabled, every chunk create_chunks returns has
\* metadata num_bytes <= byte_limit, also a chunk made by the token pass and
\* a byte window that cut a multi-byte character.
C1_ByteCeiling ==
    (Returned /\ BothEnabled) =>
        \A chunk \in Chunks : Metadata(chunk)[NUM_BYTES_KEY] <= self.byte_limit

\* A returned list that holds a byte window grown past the window size by the
\* replacement characters of the characters it cut, and a full token window
\* taken from a byte window that starts with replacement characters.
C1_Witness ==
    /\ Returned /\ BothEnabled
    /\ \E chunk \in Chunks :
          /\ HasReplacement(chunk.content)
          /\ Metadata(chunk)[NUM_BYTES_KEY] > self.bytes_splitter.chunk_size
    /\ \E chunk \in Chunks :
          /\ HasReplacement(chunk.content)
          /\ Metadata(chunk)[NUM_TOKENS_KEY] = self.token_splitter.chunk_size

\* C2: with both splitters enabled, every chunk create_chunks returns has
\* metadata num_tokens <= token_limit.
C2_TokenCeiling ==
    (Returned /\ BothEnabled) =>
        \A chunk \in Chunks : Metadata(chunk)[NUM_TOKENS_KEY] <= self.token_limit

\* A returned list with a token window of a chunk that was over the token
\* limit only, and one of a byte window of a chunk that was over both.
C2_Witness ==
    /\ Returned /\ BothEnabled
    /\ \E text \in {document[k] : k \in DOMAIN document} :
          /\ OverTokens(text) /\ ~OverBytes(text)
          /\ \E chunk \in Chunks :
                /\ chunk.content # <<>>
                /\ chunk.content[1].lo = text[1].lo
                /\ Metadata(chunk)[NUM_TOKENS_KEY] = self.token_limit - TOKEN_MARGIN
    /\ \E text \in {document[k] : k \in DOMAIN document} :
          /\ OverTokens(text) /\ OverBytes(text)
          /\ \E chunk \in Chunks :
                /\ chunk.content # <<>>
                /\ chunk.content[1].lo = text[1].lo
                /\ Metadata(chunk)[NUM_TOKENS_KEY] = self.token_limit - TOKEN_MARGIN

\* The characters of the document that a returned chunk holds (replacement
\* characters are no characters of the document).
ContentRuns ==
    UNION {{chunk.content[k] : k \in {j \in DOMAIN chunk.content : chunk.content[j].c # "R"}} :
              chunk \in Chunks}
RECURSIVE DocumentLength(_)
DocumentLength(texts) ==
    IF texts = <<>> THEN 0 ELSE count_chars(Head(texts)) + DocumentLength(Tail(texts))
CoveredAt(p) == \E r \in ContentRuns : r.lo <= p /\ p < r.lo + r.n

\* C3: no content is lost: every character of every structural chunk is held,
\* whole, by at least one returned chunk, and no structural chunk is replaced
\* by zero chunks.  (The least character not covered, if there is one, is
\* character 0 or the character right after a covered run.)
C3_NoContentLost ==
    Returned =>
        /\ Len(list_of_chunks) >= Len(document)
        /\ \A p \in {0} \cup {r.lo + r.n : r \in ContentRuns} :
              p < DocumentLength(document) => CoveredAt(p)

\* A returned list made of byte windows that cut characters and of token
\* windows, from a chunk that was over both limits.
C3_Witness ==
    /\ Returned /\ BothEnabled
    /\ \E k \in DOMAIN document : OverBytes(document[k]) /\ OverTokens(document[k])
    /\ \E chunk \in Chunks : HasReplacement(chunk.content)
    /\ \E chunk \in Chunks :
          Metadata(chunk)[NUM_TOKENS_KEY] = self.token_splitter.chunk_size
    /\ Len(list_of_chunks) > Len(document)

\* C4: every returned chunk's num_bytes and num_tokens are those of its own
\* content.
C4_AccurateMetadata ==
    Returned =>
        \A chunk \in Chunks :
            /\ Metadata(chunk)[NUM_BYTES_KEY] = count_bytes(chunk.content)
            /\ Metadata(chunk)[NUM_TOKENS_KEY] = count_tokens(chunk.content)

\* A returned sub-chunk (its dict is none of the structural chunks' dicts)
\* whose sizes differ from those of every structural chunk.
C4_Witness ==
    /\ Returned
    /\ \E chunk \in Chunks :
          /\ chunk.metadata > Len(document)
          /\ HasReplacement(chunk.content)
          /\ \A k \in DOMAIN document :
                /\ heap[k][NUM_BYTES_KEY] # Metadata(chunk)[NUM_BYTES_KEY]
                /\ heap[k][NUM_TOKENS_KEY] # Metadata(chunk)[NUM_TOKENS_KEY]

\* The byte pass, then the token pass, on the structural chunks with their
\* sizes computed; and the two passes the other way round.
BytesThenTokens ==
    LET s == split_file(self, document)
        h == _calculate_metadata_statistics(s.chunks, s.heap)
        b == _filter_by_bytes(self, s.chunks, h)
    IN _filter_by_tokens(self, b.chunks, b.heap)
TokensThenBytes ==
    LET s == split_file(self, document)
        h == _calculate_metadata_statistics(s.chunks, s.heap)
        t == _filter_by_tokens(self, s.chunks, h)
    IN _filter_by_bytes(self, t.chunks, t.heap)

\* C5: the byte pass runs before the token pass: the returned list is the
\* token pass applied to the output of the byte pass.
C5_BytesBeforeTokens ==
    Returned =>
        /\ calls = <<"load_file", "split_file", "_calculate_metadata_statistics",
                     "_filter_by_bytes", "_filter_by_tokens">>
        /\ list_of_chunks = BytesThenTokens.chunks
        /\ heap = BytesThenTokens.heap

\* A chunk over both limits for which the other order gives another number
\* of chunks than the list returned.
C5_Witness ==
    /\ Returned /\ BothEnabled
    /\ Len(document) = 1
    /\ OverBytes(document[1]) /\ OverTokens(document[1])
    /\ Len(list_of_chunks) # Len(TokensThenBytes.chunks)

\* C6: when the structural split yields no chunk, create_chunks raises: it
\* never returns, and after load_file and split_file it has called nothing.
C6_EmptyResultFails ==
    (document = <<>> /\ pc.at # "start") =>
        /\ pc.at = "raised"
        /\ calls = <<"load_file", "split_file">>
        /\ list_of_chunks = <<>>
        /\ heap = <<>>

C6_Witness == pc.at = "raised" /\ document = <<>> /\ BothEnabled

\* C7: a filter pass gives every sub-chunk a dict of its own: the pass
\* changes no dict that existed before it (the parent's and those of other
\* chunks keep their items while the sub-chunks' sizes are written), no two
\* chunks of its output share a dict, and a chunk of its output that uses a
\* dict from before the pass is a chunk of its input.
C7_MetadataIsolation ==
    [][(pc.at = "body" /\ create_chunks_body[pc.i] # "_calculate_metadata_statistics") =>
          /\ \A ref \in DOMAIN heap : heap'[ref] = heap[ref]
          /\ \A i, j \in DOMAIN list_of_chunks' :
                i # j => list_of_chunks'[i].metadata # list_of_chunks'[j].metadata
          /\ \A j \in DOMAIN list_of_chunks' :
                list_of_chunks'[j].metadata \in DOMAIN heap =>
                    list_of_chunks'[j] \in Chunks]_vars

\* One oversized chunk split into sub-chunks of different sizes, its own dict
\* still holding its own size.
C7_Witness ==
    /\ Returned /\ BothEnabled
    /\ Len(document) = 1
    /\ heap[1][NUM_BYTES_KEY] > self.byte_limit
    /\ \E c1, c2 \in Chunks :
          /\ c1.metadata # c2.metadata
          /\ c1.metadata # 1 /\ c2.metadata # 1
          /\ Metadata(c1)[NUM_BYTES_KEY] # Metadata(c2)[NUM_BYTES_KEY]

WithinLimits(text) ==
    /\ count_bytes(text) <= self.byte_limit
    /\ count_tokens(text) <= self.token_limit
Overlaps(text1, text2) ==
    \E a \in DOMAIN text1, b \in DOMAIN text2 :
        /\ text1[a].c # "R" /\ text2[b].c # "R"
        /\ text1[a].lo < text2[b].lo + text2[b].n
        /\ text2[b].lo < text1[a].lo + text1[a].n

\* C8: a structural chunk within both limits is in the returned list once,
\* as the same chunk: same content, same dict, the dict holding the
\* provenance and the chunk's sizes; no other returned chunk holds any of
\* its characters.
C8_PassThrough ==
    Returned =>
        \A k \in DOMAIN document :
            WithinLimits(document[k]) =>
                /\ Cardinality({j \in DOMAIN list_of_chunks :
                                   list_of_chunks[j].metadata = k}) = 1
                /\ FileChunk(document[k], k) \in Chunks
                /\ heap[k] = [source |-> self.path_to_file,
                              num_tokens |-> count_tokens(document[k]),
                              num_bytes |-> count_bytes(document[k])]
                /\ \A chunk \in Chunks :
                      chunk.metadata # k => ~Overlaps(chunk.content, document[k])

\* A chunk within both limits returned next to the sub-chunks of an
\* oversized one.
C8_Witness ==
    /\ Returned /\ BothEnabled
    /\ Len(document) = 2
    /\ document[1] # <<>> /\ WithinLimits(document[1])
    /\ OverBytes(document[2])
    /\ Len(list_of_chunks) > 2

(***************************************************************************)
(* Properties of the primitive splitters (specification SpecPrim).         *)
(***************************************************************************)
Called == prim.status \notin {"idle", "built"}
Step == prim.splitter.chunk_size - prim.splitter.chunk_overlap

\* C9: for chunk_overlap < chunk_size, BytesSplitter.split_text returns one
\* chunk per start 0, step, 2*step, ... below the number of bytes, chunk i
\* being the decoding of bytes [i*step, i*step + chunk_size) with metadata
\* {chunk_num: i}; a text of 1-byte characters gives the characters
\* i*step, ..., min(i*step + chunk_size, n) - 1; an empty text gives no chunk.
C9_SlidingWindows ==
    (Called /\ prim.kind = "bytes" /\ Step > 0) =>
        LET n == count_bytes(prim.input_text)
        IN /\ prim.status = "returned"
           /\ Len(prim.chunks) = CeilDiv(n, Step)
           /\ \A i \in 0..Len(prim.chunks) - 1 :
                 /\ prim.chunks[i + 1].metadata = [chunk_num |-> i]
                 /\ prim.chunks[i + 1].content =
                        DecodeWindow(prim.input_text, i * Step,
                                     i * Step + prim.splitter.chunk_size)
                 /\ (Len(prim.input_text) = 1 /\ prim.input_text[1].c = "A") =>
                        prim.chunks[i + 1].content =
                            <<[c |-> "A", lo |-> i * Step,
                               n |-> Min(i * Step + prim.splitter.chunk_size, n) - i * Step]>>

\* BytesSplitter(chunk_size=4, chunk_overlap=2).split_text('abcdef') has
\* returned 'abcd', 'cdef', 'ef'.
C9_Witness ==
    /\ prim.status = "returned" /\ prim.kind = "bytes"
    /\ prim.splitter.chunk_size = 4 /\ prim.splitter.chunk_overlap = 2
    /\ prim.input_text = <<[c |-> "A", lo |-> 0, n |-> 6]>>
    /\ prim.chunks =
          <<[content |-> <<[c |-> "A", lo |-> 0, n |-> 4]>>, metadata |-> [chunk_num |-> 0]],
            [content |-> <<[c |-> "A", lo |-> 2, n |-> 4]>>, metadata |-> [chunk_num |-> 1]],
            [content |-> <<[c |-> "A", lo |-> 4, n |-> 2]>>, metadata |-> [chunk_num |-> 2]]>>

\* C10: a primitive splitter built with its default arguments, or with
\* chunk_overlap < chunk_size, returns a chunk list for every text: it
\* neither raises nor runs forever.
C10_SplittersTotal ==
    (Called /\ (prim.splitter.default \/ Step > 0)) => prim.status = "returned"

\* What holds of the code: BytesSplitter is total and so is a TokenSplitter
\* with chunk_overlap < chunk_size.
C10_TotalButTokenDefault ==
    (Called /\ Step > 0) => prim.status = "returned"

\* C11: chunk_size is the maximum number of bytes per chunk: every chunk
\* returned by BytesSplitter.split_text has a UTF-8 length of at most
\* chunk_size bytes, for every input text, windows that cut a multi-byte
\* character included.
C11_ChunkSizeIsMaximum ==
    (prim.status = "returned" /\ prim.kind = "bytes") =>
        \A i \in DOMAIN prim.chunks :
            count_bytes(prim.chunks[i].content) <= prim.splitter.chunk_size

\* What holds of the code: a window of a text of 1-byte characters keeps to
\* chunk_size, and any window decodes to at most 3 bytes per byte it spans.
C11_MaximumForOneByteText ==
    (prim.status = "returned" /\ prim.kind = "bytes") =>
        \A i \in DOMAIN prim.chunks :
            /\ count_bytes(prim.chunks[i].content) <= 3 * prim.splitter.chunk_size
            /\ (\A k \in DOMAIN prim.input_text : BytesPerChar(prim.input_text[k].c) = 1) =>
                  count_bytes(prim.chunks[i].content) <= prim.splitter.chunk_size

(***************************************************************************)
(* Properties of AbstractFileSplitter.__init__ (specification Spec).       *)
(***************************************************************************)
\* The margin __init__ is to reserve under a limit: twice the overlap, and
\* 1024 bytes more for the metadata under the byte limit.
TokenReserve(splitter) == 2 * splitter.chunk_overlap
BytesReserve(splitter) == 1024 + 2 * splitter.chunk_overlap

\* C12: the window handed to a sub-splitter is strictly less than the limit
\* minus the reserved margin: token chunk_size < token_limit - 2 * overlap
\* and byte chunk_size < byte_limit - (1024 + 2 * overlap), overlap = 1000.
C12_WindowStrictlyBelowMargin ==
    /\ ~self.token_splitter.none =>
          /\ self.token_splitter.chunk_overlap = 1000
          /\ self.token_splitter.chunk_size
                 < self.token_limit - TokenReserve(self.token_splitter)
    /\ ~self.bytes_splitter.none =>
          /\ self.bytes_splitter.chunk_overlap = 1000
          /\ self.bytes_splitter.chunk_size
                 < self.byte_limit - BytesReserve(self.bytes_splitter)

\* C12 as the code has it: the window is exactly the limit minus the
\* reserved margin (so at most that, and strictly less than the limit):
\* token chunk_size = token_limit - 2 * overlap and byte chunk_size =
\* byte_limit - (1024 + 2 * overlap), overlap = 1000.
C12_WindowIsLimitMinusMargin ==
    /\ ~self.token_splitter.none =>
          /\ self.token_splitter.chunk_overlap = 1000
          /\ self.token_splitter.chunk_size
                 = self.token_limit - TokenReserve(self.token_splitter)
          /\ self.token_splitter.chunk_size < self.token_limit
    /\ ~self.bytes_splitter.none =>
          /\ self.bytes_splitter.chunk_overlap = 1000
          /\ self.bytes_splitter.chunk_size
                 = self.byte_limit - BytesReserve(self.bytes_splitter)
          /\ self.bytes_splitter.chunk_size < self.byte_limit

\* create_chunks has returned from a splitter built with both limits:
\* windows of 6192 tokens and 37936 bytes under limits of 8192 and 40960.
C12_Witness ==
    /\ Returned /\ BothEnabled
    /\ self.token_limit = 8192 /\ self.token_splitter.chunk_size = 6192
    /\ self.byte_limit = 40960 /\ self.bytes_splitter.chunk_size = 37936

(***************************************************************************)
(* The settings modules (rags/global_settings.py and                       *)
(* rags/chunks/global_settings.py) and the construction of file splitters. *)
(* A session is a sequence of calls of the two setters and of file         *)
(* splitter constructors; calls logs them, splitters holds the objects.    *)
(***************************************************************************)
\* The arguments of the setters: a new value, and the setter's default.
TokenLimitArguments == {4096, TOKENS_LIMIT}
BytesLimitArguments == {20480, BYTES_LIMIT}

\* No create_chunks call and no primitive splitter call under way.
NoCreateChunks ==
    /\ self = AbstractFileSplitter(PATH_TO_FILE, TRUE, TRUE)
    /\ document = <<>>
    /\ pc = At("idle", 0)
    /\ list_of_chunks = <<>>
    /\ heap = <<>>
    /\ prim = IdlePrim

InitSettings ==
    /\ SettingsImported
    /\ NoPdfNoRag
    /\ NoCreateChunks
    /\ calls = <<>>

\* rags.chunks.global_settings.set_token_limit(limit)
set_token_limit ==
    /\ Len(calls) < MaxCalls
    /\ \E limit \in TokenLimitArguments :
          /\ chunks_global_settings' =
                 [chunks_global_settings EXCEPT !.TOKENS_LIMIT = limit]
          /\ calls' = Append(calls, [op |-> "set_token_limit", limit |-> limit])
    /\ UNCHANGED <<global_settings, splitters, chunkVars, prim, pdfVars, storeVars, ragVars>>

\* rags.chunks.global_settings.set_bytes_limit(limit)
set_bytes_limit ==
    /\ Len(calls) < MaxCalls
    /\ \E limit \in BytesLimitArguments :
          /\ chunks_global_settings' =
                 [chunks_global_settings EXCEPT !.BYTES_LIMIT = limit]
          /\ calls' = Append(calls, [op |-> "set_bytes_limit", limit |-> limit])
    /\ UNCHANGED <<global_settings, splitters, chunkVars, prim, pdfVars, storeVars, ragVars>>

\* A file splitter is constructed (PdfFileSplitter(path), LangChainMDFileSplitter(path)
\* or another subclass, whose __init__ calls AbstractFileSplitter.__init__).
NewFileSplitter ==
    /\ Len(calls) < MaxCalls
    /\ \E include_token_limit \in BOOLEAN, include_byte_limit \in BOOLEAN :
          splitters' = Append(splitters,
                              AbstractFileSplitter(PATH_TO_FILE, include_token_limit,
                                                   include_byte_limit))
    /\ calls' = Append(calls, [op |-> "AbstractFileSplitter", ref |-> Len(splitters) + 1])
    /\ UNCHANGED <<global_settings, chunks_global_settings, chunkVars, prim,
                   pdfVars, storeVars, ragVars>>

NextSettings == set_token_limit \/ set_bytes_limit \/ NewFileSplitter

SpecSettings == InitSettings /\ [][NextSettings]_vars

(***************************************************************************)
(* Properties of the settings (specification SpecSettings).                *)
(***************************************************************************)
\* The calls of setter op made before call i of the session.
SetBefore(op, i) == {j \in 1..(i - 1) : calls[j].op = op}
LastOf(js) == CHOOSE j \in js : \A k \in js : k <= j

\* The file splitter constructed by call i uses limit as its token limit.
UsesTokenLimit(i, limit) ==
    LET s == splitters[calls[i].ref]
    IN /\ s.token_limit = limit
       /\ ~s.token_splitter.none => s.token_splitter.chunk_size = limit - TOKEN_MARGIN

UsesByteLimit(i, limit) ==
    LET s == splitters[calls[i].ref]
    IN /\ s.byte_limit = limit
       /\ ~s.bytes_splitter.none =>
              s.bytes_splitter.chunk_size = limit - BYTES_METADATA_RESERVE - BYTES_MARGIN

\* C13: the limits are process-wide settings read at construction: a file
\* splitter constructed after set_token_limit(L) (set_bytes_limit(L)) has
\* token_limit (byte_limit) L, the last value set before its construction,
\* and a window derived from L; it keeps them whatever is set afterwards.
C13_SettersReachNewSplitters ==
    \A i \in DOMAIN calls :
        calls[i].op = "AbstractFileSplitter" =>
            /\ SetBefore("set_token_limit", i) # {} =>
                  UsesTokenLimit(i, calls[LastOf(SetBefore("set_token_limit", i))].limit)
            /\ SetBefore("set_bytes_limit", i) # {} =>
                  UsesByteLimit(i, calls[LastOf(SetBefore("set_bytes_limit", i))].limit)

\* What holds of the code: the setters write the attributes of
\* rags.chunks.global_settings, which no splitter reads; every file splitter
\* has the limits of rags.global_settings, whatever was set, and keeps them.
C13_SettersReachNoSplitter ==
    /\ global_settings = GlobalSettings(BATCH_VECTOR_UPSERT_SIZE)
    /\ \A i \in DOMAIN calls :
          /\ calls[i].op = "AbstractFileSplitter" =>
                /\ UsesTokenLimit(i, EMBEDDING_MODEL_TOKENS_LIMIT)
                /\ UsesByteLimit(i, S3_VECTOR_INDEX_METADATA_BYTES_LIMIT)
          /\ (calls[i].op = "set_token_limit" /\ SetBefore("set_token_limit", Len(calls) + 1) # {}
              /\ i = LastOf(SetBefore("set_token_limit", Len(calls) + 1))) =>
                chunks_global_settings.TOKENS_LIMIT = calls[i].limit

(***************************************************************************)
(* PdfFileSplitter._extract_header_chunks (pdf_splitter.py).               *)
(* A str is here a sequence of characters, " " being the whitespace and    *)
(* "\n" the line feed.  A PDF is a sequence of pages, a page has blocks, a *)
(* text block has lines and a line has spans [text, size]; an image block  *)
(* has no "lines" key.                                                     *)
(***************************************************************************)
\* str.lstrip(), str.rstrip(), str.strip()
RECURSIVE str_lstrip(_)
str_lstrip(text) ==
    IF text # <<>> /\ Head(text) = " " THEN str_lstrip(Tail(text)) ELSE text

RECURSIVE str_rstrip(_)
str_rstrip(text) ==
    IF text # <<>> /\ text[Len(text)] = " "
    THEN str_rstrip(SubSeq(text, 1, Len(text) - 1))
    ELSE text

str_strip(text) == str_rstrip(str_lstrip(text))

\* sep.join(strs)
RECURSIVE str_join(_, _)
str_join(sep, strs) ==
    IF strs = <<>> THEN <<>>
    ELSE IF Len(strs) = 1 THEN strs[1]
    ELSE strs[1] \o sep \o str_join(sep, Tail(strs))

\* Mutant of lines 86-92: a header span closes the chunk it ends, it is
\* flushed with the text before it.
ExtractSpan_HeaderEndsChunk(acc, span, min_header_font) ==
    LET text == str_strip(span.text)
        current == Append(acc.current, text)
    IN IF span.size >= min_header_font
       THEN [chunks |-> Append(acc.chunks, str_join(<<"\n">>, current)), current |-> <<>>]
       ELSE [acc EXCEPT !.current = current]

\* Lines 86-92, the body of the innermost loop: acc is [chunks, current].
ExtractSpan(acc, span, min_header_font) ==
    LET text == str_strip(span.text)
        flushed ==
            IF span.size >= min_header_font /\ acc.current # <<>>
            THEN [chunks |-> Append(acc.chunks, str_join(<<"\n">>, acc.current)),
                  current |-> <<>>]
            ELSE acc
    IN [flushed EXCEPT !.current = Append(@, text)]

\* Line 85: for span in line["spans"]
RECURSIVE ExtractSpans(_, _, _)
ExtractSpans(acc, spans, min_header_font) ==
    IF spans = <<>> THEN acc
    ELSE ExtractSpans(ExtractSpan(acc, Head(spans), min_header_font), Tail(spans),
                      min_header_font)

\* Line 84: for line in b["lines"]
RECURSIVE ExtractLines(_, _, _)
ExtractLines(acc, lines, min_header_font) ==
    IF lines = <<>> THEN acc
    ELSE ExtractLines(ExtractSpans(acc, Head(lines).spans, min_header_font), Tail(lines),
                      min_header_font)

\* Lines 80-82: for b in blocks, a block without lines is skipped.
RECURSIVE ExtractBlocks(_, _, _)
ExtractBlocks(acc, blocks, min_header_font) ==
    IF blocks = <<>> THEN acc
    ELSE ExtractBlocks(IF "lines" \notin DOMAIN Head(blocks) THEN acc
                       ELSE ExtractLines(acc, Head(blocks).lines, min_header_font),
                       Tail(blocks), min_header_font)

\* Lines 77-78: for page in doc
RECURSIVE ExtractPages(_, _, _)
ExtractPages(acc, doc, min_header_font) ==
    IF doc = <<>> THEN acc
    ELSE ExtractPages(ExtractBlocks(acc, Head(doc).blocks, min_header_font), Tail(doc),
                      min_header_font)

\* PdfFileSplitter._extract_header_chunks
_extract_header_chunks(doc, min_header_font) ==
    LET acc == ExtractPages([chunks |-> <<>>, current |-> <<>>], doc, min_header_font)
    IN IF acc.current # <<>>
       THEN Append(acc.chunks, str_join(<<"\n">>, acc.current))
       ELSE acc.chunks

\* The PDFs of the model: up to MaxSpans blocks, a block being an image or
\* one line of one span, all on one page or one block a page; and the PDF
\* of test_extract_header_chunks_extracts_chunks.
SpanTexts == {<<>>, <<"c">>, <<" ", "c", " ", "c", " ">>}
FontSizes == {12, MIN_HEADER_FONT, 16}
ImageBlock == [type |-> 1]
TextBlock(spans) == [type |-> 0, lines |-> <<[spans |-> spans]>>]
Blocks ==
    {ImageBlock} \cup {TextBlock(<<[text |-> t, size |-> z]>>) : t \in SpanTexts, z \in FontSizes}
BlockSequences == UNION {[1..k -> Blocks] : k \in 0..MaxSpans}
TestDocument ==
    <<[blocks |-> <<TextBlock(<<[text |-> <<"H">>, size |-> 16],
                                [text |-> <<"c">>, size |-> 12]>>),
                    TextBlock(<<[text |-> <<"H", "2">>, size |-> 16]>>)>>]>>
PdfDocuments ==
    {<<[blocks |-> bs]>> : bs \in BlockSequences}
    \cup {[i \in 1..Len(bs) |-> [blocks |-> <<bs[i]>>]] : bs \in BlockSequences}
    \cup {TestDocument}

InitPdf ==
    /\ SettingsImported
    /\ NoCreateChunks
    /\ calls = <<>>
    /\ fs = NoSource
    /\ rag = IdleRag
    /\ vector_database = NoIndex
    /\ s3 = IdleS3
    /\ vector_item = IdleItem
    /\ \E doc \in PdfDocuments :
          pdf = [status |-> "opened", doc |-> doc, min_header_font |-> MIN_HEADER_FONT,
                 chunks |-> <<>>]

\* _extract_header_chunks(pdf_path) with the default min_header_font.
ExtractHeaderChunks ==
    /\ pdf.status = "opened"
    /\ pdf' = [pdf EXCEPT !.status = "closed",
                          !.chunks = _extract_header_chunks(pdf.doc, pdf.min_header_font)]
    /\ UNCHANGED <<chunkVars, calls, prim, settingsVars, ragVars, storeVars>>

NextPdf == ExtractHeaderChunks

SpecPdf == InitPdf /\ [][NextPdf]_vars

(***************************************************************************)
(* Properties of the PDF header splitting (specification SpecPdf).         *)
(***************************************************************************)
\* The spans of a PDF in reading order.
RECURSIVE Flatten(_)
Flatten(seqs) == IF seqs = <<>> THEN <<>> ELSE Head(seqs) \o Flatten(Tail(seqs))
SpansOfBlock(b) ==
    IF "lines" \in DOMAIN b THEN Flatten([l \in DOMAIN b.lines |-> b.lines[l].spans])
    ELSE <<>>
SpansOfPage(page) == Flatten([b \in DOMAIN page.blocks |-> SpansOfBlock(page.blocks[b])])
SpanSequence(doc) == Flatten([p \in DOMAIN doc |-> SpansOfPage(doc[p])])

\* The spans that start a chunk: the first one and every header span.
ChunkStarts(spans, threshold) ==
    {i \in DOMAIN spans : i = 1 \/ spans[i].size >= threshold}
StartOf(k, starts) == CHOOSE i \in starts : Cardinality({j \in starts : j <= i}) = k
EndOf(k, starts, n) ==
    IF k = Cardinality(starts) THEN n ELSE StartOf(k + 1, starts) - 1

\* C14: the chunks partition the span sequence: chunk k is the text of the
\* spans from the k-th chunk start (the first span, then every span of font
\* size >= the threshold, 14) up to the span before the next start or the
\* last span of the last page, stripped and joined by line feeds, so that
\* every span's text is in exactly one chunk, in order.
C14_HeaderPartition ==
    pdf.status = "closed" =>
        LET spans  == SpanSequence(pdf.doc)
            starts == ChunkStarts(spans, 14)
        IN /\ Len(pdf.chunks) = Cardinality(starts)
           /\ \A k \in DOMAIN pdf.chunks :
                 pdf.chunks[k] =
                     str_join(<<"\n">>,
                              [i \in 1..(EndOf(k, starts, Len(spans)) - StartOf(k, starts) + 1)
                                  |-> str_strip(spans[StartOf(k, starts) + i - 1].text)])

\* The spans [H 16, c 12, H2 16] have given exactly the 2 chunks 'H\nc', 'H2'.
C14_Witness ==
    /\ pdf.status = "closed"
    /\ pdf.doc = TestDocument
    /\ pdf.chunks = << <<"H", "\n", "c">>, <<"H", "2">> >>

(***************************************************************************)
(* RagDriver.fill_rag (rag_driver.py).                                     *)
(* A path is a str, a sequence of characters.  fs is what the file system  *)
(* holds at source_path: fs.kind is "file", "dir" or "none" (neither), and *)
(* fs.files are the files found there in os.walk order, each one           *)
(* [path, readable, document]: its path as fill_rag sees it, whether       *)
(* load_file can read it, and the structural chunk texts split_file makes  *)
(* of it; create_chunks is the enforcer run on them.                       *)
(* The vector store is [exists, records]: whether the index exists and the *)
(* records it holds.  Every call of a collaborator is logged in calls.     *)
(***************************************************************************)
\* str.lower()
LowerChar(ch) ==
    CASE ch = "P" -> "p" [] ch = "D" -> "d" [] ch = "F" -> "f" [] ch = "M" -> "m"
      [] OTHER -> ch
str_lower(text) == [i \in DOMAIN text |-> LowerChar(text[i])]

\* str.split(sep) for a separator of one character.
RECURSIVE SplitFrom(_, _, _, _)
SplitFrom(text, sep, piece, acc) ==
    IF text = <<>> THEN Append(acc, piece)
    ELSE IF Head(text) = sep THEN SplitFrom(Tail(text), sep, <<>>, Append(acc, piece))
    ELSE SplitFrom(Tail(text), sep, Append(piece, Head(text)), acc)
str_split(text, sep) == SplitFrom(text, sep, <<>>, <<>>)

Last(seq) == seq[Len(seq)]

\* RagDriver._determine_file_type
_determine_file_type(file_path) == str_rstrip(str_lower(Last(str_split(file_path, "."))))

\* allowed_file_types = ['pdf', 'md'] (line 173)
allowed_file_types == << <<"p", "d", "f">>, <<"m", "d">> >>
InList(x, list) == \E i \in DOMAIN list : list[i] = x

\* RagDriver._filter_files_by_type; acc is [file_to_process, calls], the
\* list the accepted path is appended to and the log the warning goes to.
_filter_files_by_type(file_path, allowed, acc) ==
    LET file_type == _determine_file_type(file_path)
    IN IF InList(file_type, allowed)
       THEN [acc EXCEPT !.file_to_process = Append(@, file_path)]
       ELSE [acc EXCEPT !.calls = Append(@, [op |-> "warning", file_type |-> file_type,
                                              file_path |-> file_path])]

\* Lines 178-181: the walk of a directory.
RECURSIVE FilterWalk(_, _, _)
FilterWalk(files, allowed, acc) ==
    IF files = <<>> THEN acc
    ELSE FilterWalk(Tail(files), allowed,
                    _filter_files_by_type(Head(files).path, allowed, acc))

\* Mutant of lines 21-26: the registry compares the file type as written.
create_based_on_file_type_AsWritten(path_to_file) ==
    LET file_type == Last(str_split(path_to_file, "."))
    IN IF file_type = <<"p", "d", "f">> THEN "PdfFileSplitter"
       ELSE IF file_type = <<"m", "d">> THEN "LangChainMDFileSplitter"
       ELSE "ValueError"

\* ChunkSplitterFactory.create_based_on_file_type: the splitter class, or
\* the ValueError of an unsupported file type.
create_based_on_file_type(path_to_file) ==
    LET file_type == Last(str_split(path_to_file, "."))
    IN IF str_rstrip(str_lower(file_type)) = <<"p", "d", "f">> THEN "PdfFileSplitter"
       ELSE IF str_rstrip(str_lower(file_type)) = <<"m", "d">> THEN "LangChainMDFileSplitter"
       ELSE "ValueError"

\* The file of fs at a path.
FileAt(path) == CHOOSE f \in {fs.files[i] : i \in DOMAIN fs.files} : f.path = path

\* Lines 246-248 of create_chunks: the statements of create_chunks_body
\* from statement i on, run on file_chunks.
RECURSIVE RunBody(_, _, _, _)
RunBody(this, i, file_chunks, h) ==
    IF i > Len(create_chunks_body) THEN [chunks |-> file_chunks, heap |-> h]
    ELSE LET r == CASE create_chunks_body[i] = "_calculate_metadata_statistics" ->
                          [chunks |-> file_chunks,
                           heap |-> _calculate_metadata_statistics(file_chunks, h)]
                    [] create_chunks_body[i] = "_filter_by_bytes" ->
                          _filter_by_bytes(this, file_chunks, h)
                    [] create_chunks_body[i] = "_filter_by_tokens" ->
                          _filter_by_tokens(this, file_chunks, h)
         IN RunBody(this, i + 1, r.chunks, r.heap)

\* Mutant of lines 241-244 of create_chunks: the empty list is not checked,
\* a file of no chunk gives an empty list.
create_chunks_NoCheck(file) ==
    LET this == AbstractFileSplitter(file.path, TRUE, TRUE)
        s    == split_file(this, file.document)
        r    == RunBody(this, 1, s.chunks, s.heap)
    IN IF ~file.readable THEN [error |-> "load_file", chunks |-> <<>>]
       ELSE [error |-> "none",
             chunks |-> [j \in DOMAIN r.chunks |->
                            FileChunk(r.chunks[j].content, r.heap[r.chunks[j].metadata])]]

\* splitter.create_chunks() for the splitter of a file (PdfFileSplitter(path)
\* or LangChainMDFileSplitter(path), both with the two limits on): the
\* exception it raises, or the sized chunks it returns, each with its
\* metadata dict.
create_chunks(file) ==
    LET this == AbstractFileSplitter(file.path, TRUE, TRUE)
        s    == split_file(this, file.document)
        r    == RunBody(this, 1, s.chunks, s.heap)
    IN IF ~file.readable THEN [error |-> "load_file", chunks |-> <<>>]
       ELSE IF s.chunks = <<>> THEN [error |-> "create_chunks", chunks |-> <<>>]
       ELSE [error |-> "none",
             chunks |-> [j \in DOMAIN r.chunks |->
                            FileChunk(r.chunks[j].content, r.heap[r.chunks[j].metadata])]]

\* embedding_instance.embed(text), when it returns: the vector of text.
embed(text) == [vector_of |-> text]

\* Mutant of lines 40-43: an item of the chunk's metadata wins over content.
create_from_file_chunk_MetadataWins(file_chunk, chunk_embedding, key) ==
    [key |-> key,
     embedding_vector |-> chunk_embedding,
     metadata |-> file_chunk.metadata @@ ("content" :> file_chunk.content)]

\* VectorItem.create_from_file_chunk; key is the uuid4 drawn for the item.
create_from_file_chunk(file_chunk, chunk_embedding, key) ==
    [key |-> key,
     embedding_vector |-> chunk_embedding,
     metadata |-> ("content" :> file_chunk.content) @@ file_chunk.metadata]

\* The file names of the model: 'a.pdf', 'b.MD ' (upper case, a trailing
\* blank), 'c.txt' and 'md' (no extension).  A single-file source is named
\* by the file name, a file found by the walk of directory 'd' by 'd/' and
\* its name (os.path.join(root, file)).
FileNames ==
    {<<"a", ".", "p", "d", "f">>, <<"b", ".", "M", "D", " ">>,
     <<"c", ".", "t", "x", "t">>, <<"m", "d">>}
DirectoryPrefix == <<"d", "/">>

\* What a file holds: no structural chunk, 1 or MaxFileChunks short chunks,
\* or one chunk over the token limit; or the file cannot be read.  A file
\* of an unsupported type is never opened: one content stands for all.
FileDocuments ==
    {Layouts([i \in 1..k |-> Shape(0, "A", 5)], 0, <<>>) : k \in {0, 1, MaxFileChunks}}
    \cup {Layouts(<<Shape(0, "A", 9000)>>, 0, <<>>)}
FilesAt(prefix) ==
    {[path |-> prefix \o name, readable |-> readable, document |-> doc] :
        name \in FileNames, readable \in BOOLEAN, doc \in FileDocuments}
Supported(file) == create_based_on_file_type(file.path) # "ValueError"
Files(prefix) ==
    {f \in FilesAt(prefix) :
        /\ ~f.readable => f.document = <<>>
        /\ ~Supported(f) => (f.readable /\ f.document = <<>>)}

Sources ==
    {NoSource}
    \cup {[kind |-> "file", files |-> <<f>>] : f \in Files(<<>>)}
    \cup {[kind |-> "dir", files |-> files] :
            files \in {fsq \in UNION {[1..k -> Files(DirectoryPrefix)] : k \in 0..MaxFiles} :
                          \A i, j \in DOMAIN fsq : fsq[i].path = fsq[j].path => i = j}}

\* The batch size: the value of rags/global_settings.py, or one set in its
\* place (as test_fill_rag_logic does).
BatchSizes == (1..MaxBatch) \cup {BATCH_VECTOR_UPSERT_SIZE}

\* A record an earlier ingestion left in the index.
OldIndex == [exists |-> TRUE, records |-> <<[key |-> 0]>>]

InitRag ==
    /\ \E batch \in BatchSizes : global_settings = GlobalSettings(batch)
    /\ chunks_global_settings = ChunksGlobalSettings
    /\ splitters = <<>>
    /\ NoCreateChunks
    /\ calls = <<>>
    /\ pdf = IdlePdf
    /\ s3 = IdleS3
    /\ vector_item = IdleItem
    /\ fs \in Sources
    /\ vector_database \in {NoIndex, OldIndex}
    /\ rag = [pc |-> "start", error |-> "none",
              file_to_process |-> <<>>,
              next_file |-> 1,
              chunk_list |-> <<>>,
              chunk_index |-> 0,
              embedding_batch |-> <<>>,
              uuids |-> 0,
              total_added_chunks |-> 0,
              total_looped_chunks |-> 0,
              there_is_next_file_to_process |-> TRUE]

Raise(error) == [rag EXCEPT !.pc = "raised", !.error = error]

\* Mutant of lines 175-183: a source that is neither a file nor a
\* directory is taken for an empty directory.
Discover_NoRaise ==
    /\ rag.pc = "start"
    /\ LET acc == FilterWalk(fs.files, allowed_file_types,
                             [file_to_process |-> <<>>, calls |-> calls])
       IN /\ rag' = [rag EXCEPT !.pc = "delete_index",
                                !.file_to_process = acc.file_to_process]
          /\ calls' = acc.calls
    /\ UNCHANGED <<chunkVars, prim, settingsVars, pdfVars, storeVars, fs, vector_database>>

\* Mutant of lines 185-194: with no file to process fill_rag returns at
\* once, the index is not rebuilt.
Discover_ReturnWhenEmpty ==
    /\ rag.pc = "start"
    /\ \/ /\ fs.kind \in {"file", "dir"}
          /\ LET acc == FilterWalk(fs.files, allowed_file_types,
                                   [file_to_process |-> <<>>, calls |-> calls])
             IN /\ rag' = [rag EXCEPT !.pc = IF acc.file_to_process = <<>>
                                              THEN "returned" ELSE "delete_index",
                                      !.file_to_process = acc.file_to_process]
                /\ calls' = acc.calls
       \/ /\ fs.kind \notin {"file", "dir"}
          /\ rag' = Raise("ValueError")
          /\ calls' = calls
    /\ UNCHANGED <<chunkVars, prim, settingsVars, pdfVars, storeVars, fs, vector_database>>

\* Lines 173-186: file discovery.  A file goes through the filter, a
\* directory is walked and every file found goes through it, anything else
\* raises ValueError.  (A single file is the one file of fs.files; the
\* generator of line 186 runs nothing before its first next().)
Discover ==
    /\ rag.pc = "start"
    /\ \/ /\ fs.kind = "file"
          /\ LET acc == _filter_files_by_type(fs.files[1].path, allowed_file_types,
                                              [file_to_process |-> <<>>, calls |-> calls])
             IN /\ rag' = [rag EXCEPT !.pc = "delete_index",
                                      !.file_to_process = acc.file_to_process]
                /\ calls' = acc.calls
       \/ /\ fs.kind = "dir"
          /\ LET acc == FilterWalk(fs.files, allowed_file_types,
                                   [file_to_process |-> <<>>, calls |-> calls])
             IN /\ rag' = [rag EXCEPT !.pc = "delete_index",
                                      !.file_to_process = acc.file_to_process]
                /\ calls' = acc.calls
       \/ /\ fs.kind \notin {"file", "dir"}
          /\ rag' = Raise("ValueError")
          /\ calls' = calls
    /\ UNCHANGED <<chunkVars, prim, settingsVars, pdfVars, storeVars, fs, vector_database>>

\* Line 193: vector_database.delete_index(); the call may fail.
DeleteIndex ==
    /\ rag.pc = "delete_index"
    /\ calls' = Append(calls, [op |-> "delete_index"])
    /\ \/ /\ vector_database' = NoIndex
          /\ rag' = [rag EXCEPT !.pc = "create_index"]
       \/ /\ vector_database' = vector_database
          /\ rag' = Raise("delete_index")
    /\ UNCHANGED <<chunkVars, prim, settingsVars, pdfVars, storeVars, fs>>

\* Line 194: vector_database.create_index(); the call may fail.
CreateIndex ==
    /\ rag.pc = "create_index"
    /\ calls' = Append(calls, [op |-> "create_index"])
    /\ \/ /\ vector_database' = [vector_database EXCEPT !.exists = TRUE]
          /\ rag' = [rag EXCEPT !.pc = "next"]
       \/ /\ vector_database' = vector_database
          /\ rag' = Raise("create_index")
    /\ UNCHANGED <<chunkVars, prim, settingsVars, pdfVars, storeVars, fs>>

\* Mutant of lines 219-223: the batch left after the loop is not upserted.
AfterLoop_NoRemaining(r) == [r EXCEPT !.pc = "returned"]

\* Lines 219-223, after the loop: what is left in the batch is upserted.
AfterLoop(r) == [r EXCEPT !.pc = IF r.embedding_batch # <<>> THEN "remaining" ELSE "returned"]

\* Line 201: the test of the while loop.
LoopHead(r) == IF r.there_is_next_file_to_process THEN [r EXCEPT !.pc = "next"] ELSE AfterLoop(r)

\* Line 208: the step of the for loop, after the chunk at r.chunk_index.
AfterChunk(r) ==
    IF r.chunk_index < Len(r.chunk_list)
    THEN [r EXCEPT !.pc = "embed", !.chunk_index = @ + 1]
    ELSE LoopHead(r)

\* Mutant of line 213: the batch is upserted once it holds more than the
\* batch size.
BatchIsFull_Above(embedding_batch) ==
    Len(embedding_batch) > global_settings.BATCH_VECTOR_UPSERT_SIZE

\* Line 213: len(embedding_batch) >= global_settings.BATCH_VECTOR_UPSERT_SIZE
BatchIsFull(embedding_batch) ==
    Len(embedding_batch) >= global_settings.BATCH_VECTOR_UPSERT_SIZE

\* Mutant of lines 128-131 and 186: the chunk lists of all files are made
\* at the first next(), not one file at a time.
NextChunkList_Eager ==
    /\ rag.pc = "next"
    /\ \/ /\ rag.next_file <= Len(rag.file_to_process)
          /\ LET file_path == rag.file_to_process[rag.next_file]
                 file      == FileAt(file_path)
                 result    == create_chunks(file)
             IN /\ calls' =
                       IF rag.next_file = 1
                       THEN calls \o [k \in DOMAIN rag.file_to_process |->
                                         [op |-> "create_chunks",
                                          file_path |-> rag.file_to_process[k]]]
                       ELSE calls
                /\ rag' =
                      IF create_based_on_file_type(file_path) = "ValueError"
                      THEN Raise("ValueError")
                      ELSE IF result.error # "none" THEN Raise(result.error)
                      ELSE AfterChunk([rag EXCEPT
                               !.next_file = @ + 1,
                               !.chunk_list = result.chunks,
                               !.chunk_index = 0,
                               !.there_is_next_file_to_process = result.chunks # <<>>])
       \/ /\ rag.next_file > Len(rag.file_to_process)
          /\ calls' = calls
          /\ rag' = AfterChunk([rag EXCEPT !.chunk_list = <<>>,
                                           !.chunk_index = 0,
                                           !.there_is_next_file_to_process = FALSE])
    /\ UNCHANGED <<chunkVars, prim, settingsVars, pdfVars, storeVars, fs, vector_database>>

\* Lines 203-208 with the generator of lines 128-131: the chunk list of the
\* next file, or the default [] when no file is left; the splitter
\* registry or create_chunks may raise.
NextChunkList ==
    /\ rag.pc = "next"
    /\ \/ /\ rag.next_file <= Len(rag.file_to_process)
          /\ LET file_path == rag.file_to_process[rag.next_file]
                 file      == FileAt(file_path)
                 result    == create_chunks(file)
             IN /\ calls' = Append(calls, [op |-> "create_chunks", file_path |-> file_path])
                /\ rag' =
                      IF create_based_on_file_type(file_path) = "ValueError"
                      THEN Raise("ValueError")
                      ELSE IF result.error # "none" THEN Raise(result.error)
                      ELSE AfterChunk([rag EXCEPT
                               !.next_file = @ + 1,
                               !.chunk_list = result.chunks,
                               !.chunk_index = 0,
                               !.there_is_next_file_to_process = result.chunks # <<>>])
       \/ /\ rag.next_file > Len(rag.file_to_process)
          /\ calls' = calls
          /\ rag' = AfterChunk([rag EXCEPT !.chunk_list = <<>>,
                                           !.chunk_index = 0,
                                           !.there_is_next_file_to_process = FALSE])
    /\ UNCHANGED <<chunkVars, prim, settingsVars, pdfVars, storeVars, fs, vector_database>>

\* Mutant of line 209: when embed fails the pending batch is upserted
\* before the error leaves fill_rag.
Embed_FlushOnError ==
    /\ rag.pc = "embed"
    /\ LET chunk == rag.chunk_list[rag.chunk_index]
           item  == create_from_file_chunk(chunk, embed(chunk.content), rag.uuids + 1)
           embedding_batch == Append(rag.embedding_batch, item)
       IN /\ calls' = Append(calls, [op |-> "embed", text |-> chunk.content])
          /\ \/ /\ rag' = Raise("embed")
                /\ vector_database' =
                       [vector_database EXCEPT !.records = @ \o rag.embedding_batch]
             \/ /\ rag' = IF BatchIsFull(embedding_batch)
                          THEN [rag EXCEPT !.pc = "add_vectors",
                                           !.uuids = @ + 1,
                                           !.embedding_batch = embedding_batch]
                          ELSE AfterChunk([rag EXCEPT !.uuids = @ + 1,
                                                      !.embedding_batch = embedding_batch,
                                                      !.total_looped_chunks = @ + 1])
                /\ vector_database' = vector_database
    /\ UNCHANGED <<chunkVars, prim, settingsVars, pdfVars, storeVars, fs>>

\* Mutant of line 209: a failed embed call is made again.
Embed_Retry ==
    /\ rag.pc = "embed"
    /\ LET chunk == rag.chunk_list[rag.chunk_index]
           item  == create_from_file_chunk(chunk, embed(chunk.content), rag.uuids + 1)
           embedding_batch == Append(rag.embedding_batch, item)
       IN /\ calls' = Append(calls, [op |-> "embed", text |-> chunk.content])
          /\ \/ /\ Len(calls) < (MaxFiles + 1) * (MaxFileChunks + 2)
                /\ rag' = rag
             \/ rag' = IF BatchIsFull(embedding_batch)
                       THEN [rag EXCEPT !.pc = "add_vectors",
                                        !.uuids = @ + 1,
                                        !.embedding_batch = embedding_batch]
                       ELSE AfterChunk([rag EXCEPT !.uuids = @ + 1,
                                                   !.embedding_batch = embedding_batch,
                                                   !.total_looped_chunks = @ + 1])
    /\ UNCHANGED <<chunkVars, prim, settingsVars, pdfVars, storeVars, fs, vector_database>>

\* Lines 209-213 and 218: the chunk is embedded, its vector item is made
\* and put in the batch; embed may fail.
Embed ==
    /\ rag.pc = "embed"
    /\ LET chunk == rag.chunk_list[rag.chunk_index]
           item  == create_from_file_chunk(chunk, embed(chunk.content), rag.uuids + 1)
           embedding_batch == Append(rag.embedding_batch, item)
       IN /\ calls' = Append(calls, [op |-> "embed", text |-> chunk.content])
          /\ \/ rag' = Raise("embed")
             \/ rag' = IF BatchIsFull(embedding_batch)
                       THEN [rag EXCEPT !.pc = "add_vectors",
                                        !.uuids = @ + 1,
                                        !.embedding_batch = embedding_batch]
                       ELSE AfterChunk([rag EXCEPT !.uuids = @ + 1,
                                                   !.embedding_batch = embedding_batch,
                                                   !.total_looped_chunks = @ + 1])
    /\ UNCHANGED <<chunkVars, prim, settingsVars, pdfVars, storeVars, fs, vector_database>>

\* Mutant of lines 214-217: the batch is not emptied after the upsert.
AddVectors_KeepBatch ==
    /\ rag.pc = "add_vectors"
    /\ calls' = Append(calls, [op |-> "add_vectors", vectors |-> rag.embedding_batch])
    /\ \/ /\ vector_database' = vector_database
          /\ rag' = Raise("add_vectors")
       \/ /\ vector_database' =
                 [vector_database EXCEPT !.records = @ \o rag.embedding_batch]
          /\ rag' = AfterChunk([rag EXCEPT
                        !.total_added_chunks = @ + Len(rag.embedding_batch),
                        !.total_looped_chunks = @ + 1])
    /\ UNCHANGED <<chunkVars, prim, settingsVars, pdfVars, storeVars, fs>>

\* Lines 214-218: the full batch is upserted and a new one begun;
\* add_vectors may fail, and then stores nothing.
AddVectors ==
    /\ rag.pc = "add_vectors"
    /\ calls' = Append(calls, [op |-> "add_vectors", vectors |-> rag.embedding_batch])
    /\ \/ /\ vector_database' = vector_database
          /\ rag' = Raise("add_vectors")
       \/ /\ vector_database' =
                 [vector_database EXCEPT !.records = @ \o rag.embedding_batch]
          /\ rag' = AfterChunk([rag EXCEPT
                        !.total_added_chunks = @ + Len(rag.embedding_batch),
                        !.embedding_batch = <<>>,
                        !.total_looped_chunks = @ + 1])
    /\ UNCHANGED <<chunkVars, prim, settingsVars, pdfVars, storeVars, fs>>

\* Lines 220-223: the batch left after the loop is upserted.
AddRemainingVectors ==
    /\ rag.pc = "remaining"
    /\ calls' = Append(calls, [op |-> "add_vectors", vectors |-> rag.embedding_batch])
    /\ \/ /\ vector_database' = vector_database
          /\ rag' = Raise("add_vectors")
       \/ /\ vector_database' =
                 [vector_database EXCEPT !.records = @ \o rag.embedding_batch]
          /\ rag' = [rag EXCEPT !.pc = "returned",
                                !.total_added_chunks = @ + Len(rag.embedding_batch)]
    /\ UNCHANGED <<chunkVars, prim, settingsVars, pdfVars, storeVars, fs>>

NextRag ==
    \/ Discover
    \/ DeleteIndex
    \/ CreateIndex
    \/ NextChunkList
    \/ Embed
    \/ AddVectors
    \/ AddRemainingVectors

SpecRag == InitRag /\ [][NextRag]_vars

(***************************************************************************)
(* Properties of fill_rag (specification SpecRag).                         *)
(***************************************************************************)
ValidSource == fs.kind \in {"file", "dir"}
Discovered == rag.pc \notin {"idle", "start"}
BatchSize == global_settings.BATCH_VECTOR_UPSERT_SIZE
CallsOf(op) == SelectSeq(calls, LAMBDA c : c.op = op)
Paths == [i \in DOMAIN fs.files |-> fs.files[i].path]

\* The extension of a path: what follows the last "." of its last
\* component; a last component without "." has no extension.
Basename(path) == Last(str_split(path, "/"))
HasExtension(path) == Len(str_split(Basename(path), ".")) > 1
Extension(path) == Last(str_split(Basename(path), "."))
HasAllowedExtension(path) ==
    /\ HasExtension(path)
    /\ str_rstrip(str_lower(Extension(path))) \in {<<"p", "d", "f">>, <<"m", "d">>}

\* C15: once the files are discovered, the files to process are exactly
\* the files (the single file, or every file of the walk, in order) whose
\* extension, lower-cased and without trailing whitespace, is pdf or md;
\* every other file got a warning, discovery raised nothing, and chunks are
\* only ever produced for files with such an extension.
C15_ExtensionFilter ==
    (ValidSource /\ Discovered) =>
        /\ rag.file_to_process = SelectSeq(Paths, HasAllowedExtension)
        /\ \A i \in DOMAIN Paths :
              ~HasAllowedExtension(Paths[i]) =>
                  \E w \in DOMAIN calls :
                      calls[w].op = "warning" /\ calls[w].file_path = Paths[i]
        /\ \A c \in DOMAIN calls :
              calls[c].op = "create_chunks" => HasAllowedExtension(calls[c].file_path)
        /\ rag.pc = "raised" => CallsOf("delete_index") # <<>>

\* What holds of the code: the same, of the files whose path ends, after its
\* last "." or from its start when it has none, in pdf or md (lower-cased,
\* without trailing whitespace).
AfterLastDot(path) == str_rstrip(str_lower(Last(str_split(path, "."))))
EndsInAllowedType(path) == AfterLastDot(path) \in {<<"p", "d", "f">>, <<"m", "d">>}
C15_LastPieceFilter ==
    (ValidSource /\ Discovered) =>
        /\ rag.file_to_process = SelectSeq(Paths, EndsInAllowedType)
        /\ \A i \in DOMAIN Paths :
              ~EndsInAllowedType(Paths[i]) =>
                  \E w \in DOMAIN calls :
                      calls[w].op = "warning" /\ calls[w].file_path = Paths[i]
        /\ \A c \in DOMAIN calls :
              calls[c].op = "create_chunks" => EndsInAllowedType(calls[c].file_path)
        /\ rag.pc = "raised" => CallsOf("delete_index") # <<>>

\* C16: for a source path that is neither a file nor a directory, every
\* step of fill_rag ends it with ValueError, makes no call (no
\* delete_index, create_index, embed or add_vectors) and leaves the
\* vector index as it was.
C16_InvalidSourceRaises ==
    [][fs.kind = "none" =>
          /\ rag'.pc = "raised" /\ rag'.error = "ValueError"
          /\ calls' = <<>>
          /\ vector_database' = vector_database]_vars

\* fill_rag has raised for such a source: nothing was called and the index
\* an earlier ingestion filled is there.
C16_Witness ==
    /\ fs.kind = "none"
    /\ rag.pc = "raised" /\ rag.error = "ValueError"
    /\ calls = <<>>
    /\ vector_database = OldIndex

\* The calls made to the vector store and the embedding, in order.
StoreCalls ==
    SelectSeq(calls, LAMBDA c : c.op \in {"delete_index", "create_index", "embed",
                                          "add_vectors"})
PastRebuild == rag.pc \in {"next", "embed", "add_vectors", "remaining", "returned"}

\* C17: for a source path that is a file or a directory, delete_index is
\* called at most once, create_index at most once and only after it, and
\* both before any embed or add_vectors call; once fill_rag is past the
\* rebuild, and so when it has returned, each was called exactly once,
\* whatever the filter let through.
C17_RebuildOnceBeforeIngesting ==
    ValidSource =>
        /\ Len(CallsOf("delete_index")) <= 1
        /\ Len(CallsOf("create_index")) <= 1
        /\ \A i \in DOMAIN StoreCalls :
              /\ StoreCalls[i].op = "delete_index" => i = 1
              /\ StoreCalls[i].op = "create_index" => i = 2
              /\ StoreCalls[i].op \in {"embed", "add_vectors"} => i > 2
        /\ PastRebuild =>
              /\ Len(StoreCalls) >= 2
              /\ StoreCalls[1].op = "delete_index"
              /\ StoreCalls[2].op = "create_index"
        /\ (Discovered /\ ~PastRebuild /\ rag.pc # "raised") =>
              rag.pc \in {"delete_index", "create_index"}

\* fill_rag has returned from a directory none of whose files passed the
\* filter: the index an earlier ingestion filled was deleted and created
\* anew, empty.
C17_Witness ==
    /\ fs.kind = "dir" /\ fs.files # <<>>
    /\ rag.pc = "returned"
    /\ rag.file_to_process = <<>>
    /\ StoreCalls = <<[op |-> "delete_index"], [op |-> "create_index"]>>
    /\ vector_database = [exists |-> TRUE, records |-> <<>>]

\* The sized chunks of the accepted files, in emission order: file by file
\* in discovery order, and within a file in the order of its chunk list.
SizedChunks ==
    Flatten([k \in DOMAIN rag.file_to_process |->
                create_chunks(FileAt(rag.file_to_process[k])).chunks])
\* The batches handed to add_vectors, call by call, and their records.
Batches == [i \in DOMAIN CallsOf("add_vectors") |-> CallsOf("add_vectors")[i].vectors]
Upserted == Flatten(Batches)
Embedded == [i \in DOMAIN CallsOf("embed") |-> CallsOf("embed")[i].text]

\* C18: when fill_rag has returned, having ingested the K sized chunks of
\* the accepted files with batch size B, it has made exactly ceil(K/B)
\* add_vectors calls, whose records number K in all.
C18_BatchedUpsertCount ==
    rag.pc = "returned" =>
        /\ Len(Batches) = CeilDiv(Len(SizedChunks), BatchSize)
        /\ Len(Upserted) = Len(SizedChunks)
        /\ rag.total_added_chunks = Len(SizedChunks)

\* 3 chunks of two files were ingested with batch size 2, in 2 calls.
C18_Witness ==
    /\ rag.pc = "returned"
    /\ BatchSize = 2
    /\ Len(rag.file_to_process) = 2
    /\ Len(SizedChunks) = 3
    /\ Len(Batches) = 2

\* C19: every add_vectors call gets a batch of 1 to B records; a batch of
\* fewer than B records is only handed over by the last call, made once no
\* file is left (so never at a file boundary); and the batch being filled
\* holds fewer than B records but at the moment it is handed over.
C19_BatchBounds ==
    /\ \A i \in DOMAIN calls :
          calls[i].op = "add_vectors" =>
              /\ Len(calls[i].vectors) >= 1
              /\ Len(calls[i].vectors) <= BatchSize
              /\ Len(calls[i].vectors) < BatchSize =>
                    /\ i = Len(calls)
                    /\ rag.pc \in {"returned", "raised"}
                    /\ rag.next_file > Len(rag.file_to_process)
                    /\ Len(CallsOf("embed")) = Len(SizedChunks)
    /\ Discovered =>
          /\ Len(rag.embedding_batch) <= BatchSize
          /\ Len(rag.embedding_batch) = BatchSize =>
                (rag.pc = "add_vectors" \/ (rag.pc = "raised" /\ rag.error = "add_vectors"))

\* One add_vectors call was given a full batch holding chunks of two files.
C19_Witness ==
    \E i \in DOMAIN calls :
        /\ calls[i].op = "add_vectors"
        /\ Len(calls[i].vectors) = BatchSize
        /\ \E a, b \in DOMAIN calls[i].vectors :
              calls[i].vectors[a].metadata["source"] # calls[i].vectors[b].metadata["source"]

\* C20: when fill_rag has returned, the texts embedded are the contents of
\* the sized chunks of the accepted files, each once and in emission order;
\* the records handed to add_vectors, over all calls, are one per chunk in
\* the same order, each in one call only and each under a key of its own;
\* and they are what the index holds.
C20_EveryChunkOnceInOrder ==
    rag.pc = "returned" =>
        /\ Embedded = [i \in DOMAIN SizedChunks |-> SizedChunks[i].content]
        /\ Len(Upserted) = Len(SizedChunks)
        /\ \A i \in DOMAIN Upserted :
              /\ Upserted[i].metadata["content"] = SizedChunks[i].content
              /\ Upserted[i].embedding_vector = embed(SizedChunks[i].content)
        /\ \A i, j \in DOMAIN Upserted : Upserted[i].key = Upserted[j].key => i = j
        /\ vector_database = [exists |-> TRUE, records |-> Upserted]

\* A directory of two accepted files with 3 chunks in all was ingested,
\* the 3 records going to the store in more than one call.
C20_Witness ==
    /\ rag.pc = "returned"
    /\ fs.kind = "dir"
    /\ Len(rag.file_to_process) = 2
    /\ Len(SizedChunks) = 3
    /\ Len(Batches) > 1
    /\ Len(vector_database.records) = 3

\* The calls a failure of which ends fill_rag, by the error it ends with: a
\* file that cannot be loaded and a split that gives no chunk both fail
\* inside create_chunks.
CallErrors == {"load_file", "create_chunks", "embed", "add_vectors"}
FailedCall(error) == IF error = "load_file" THEN "create_chunks" ELSE error
IsPrefix(s1, s2) == Len(s1) <= Len(s2) /\ \A i \in DOMAIN s1 : s1[i] = s2[i]

\* No call is made twice: the files handed to create_chunks are the first
\* accepted files, each once; the texts embedded are the first sized chunks,
\* each once; no record is handed to add_vectors twice.
NoCallRepeated ==
    /\ IsPrefix([i \in DOMAIN CallsOf("create_chunks") |->
                    CallsOf("create_chunks")[i].file_path], rag.file_to_process)
    /\ IsPrefix(Embedded, [i \in DOMAIN SizedChunks |-> SizedChunks[i].content])
    /\ \A i, j \in DOMAIN Upserted : Upserted[i].key = Upserted[j].key => i = j
    /\ Len(Upserted) <= Len(Embedded)

\* C25: fill_rag fails fast.  The step in which a file load, a split, an
\* embed or an add_vectors call fails ends fill_rag with that error, the
\* failed call being the last call made and the index left as it was; once
\* fill_rag has raised nothing more happens (no file is loaded, nothing is
\* embedded or upserted); and no call is ever repeated.
C25_FailFast ==
    /\ []NoCallRepeated
    /\ [][/\ rag.pc = "raised" => UNCHANGED vars
          /\ (rag.pc # "raised" /\ rag'.pc = "raised" /\ rag'.error \in CallErrors) =>
                /\ Len(calls') = Len(calls) + 1
                /\ Last(calls').op = FailedCall(rag'.error)
                /\ vector_database' = vector_database
                /\ rag'.embedding_batch = rag.embedding_batch
                /\ rag'.next_file = rag.next_file]_vars

\* An embed call failed after another had succeeded, with a file still to
\* be loaded: fill_rag has raised and that file was never loaded.
C25_Witness ==
    /\ rag.pc = "raised" /\ rag.error = "embed"
    /\ Len(CallsOf("embed")) >= 2
    /\ Last(calls).op = "embed"
    /\ rag.next_file <= Len(rag.file_to_process)
    /\ Len(CallsOf("create_chunks")) < Len(rag.file_to_process)

\* The log before call p: how many calls of op it holds, how many sized
\* chunks the files loaded in it have, how many records were upserted in it.
Before(p, op) == Cardinality({q \in 1..(p - 1) : calls[q].op = op})
ChunksOfFirst(k) ==
    Len(Flatten([f \in 1..k |-> create_chunks(FileAt(rag.file_to_process[f])).chunks]))
UpsertedBefore(p) ==
    Len(Flatten([q \in 1..(p - 1) |->
                    IF calls[q].op = "add_vectors" THEN calls[q].vectors ELSE <<>>]))

\* C26: fill_rag works one file and one chunk at a time.  The k-th file
\* loaded is the k-th accepted file, and it is loaded only when every chunk
\* of the files before it has been embedded; the n-th text embedded is the
\* n-th sized chunk, a chunk of the file loaded last, and it is embedded
\* only when fewer than B records wait in the batch (a full batch has been
\* handed to add_vectors first); and a batch handed to add_vectors holds
\* every record embedded and not yet handed over, in order.
C26_OneFileOneChunkAtATime ==
    \A p \in DOMAIN calls :
        /\ calls[p].op = "create_chunks" =>
              /\ Before(p, "create_chunks") < Len(rag.file_to_process)
              /\ calls[p].file_path = rag.file_to_process[Before(p, "create_chunks") + 1]
              /\ Before(p, "embed") = ChunksOfFirst(Before(p, "create_chunks"))
        /\ calls[p].op = "embed" =>
              /\ Before(p, "embed") < Len(SizedChunks)
              /\ calls[p].text = SizedChunks[Before(p, "embed") + 1].content
              /\ Before(p, "embed") >= ChunksOfFirst(Before(p, "create_chunks") - 1)
              /\ Before(p, "embed") < ChunksOfFirst(Before(p, "create_chunks"))
              /\ Before(p, "embed") - UpsertedBefore(p) < BatchSize
        /\ calls[p].op = "add_vectors" =>
              /\ calls[p - 1].op = "embed"
              /\ UpsertedBefore(p) + Len(calls[p].vectors) = Before(p, "embed")
              /\ \A i \in DOMAIN calls[p].vectors :
                    calls[p].vectors[i].metadata["content"] =
                        SizedChunks[UpsertedBefore(p) + i].content

\* Two files were ingested; the second was loaded right after the chunk
\* that ended the first had been embedded and its full batch upserted.
C26_Witness ==
    /\ rag.pc = "returned"
    /\ Len(CallsOf("create_chunks")) = 2
    /\ \E p \in DOMAIN calls :
          /\ p > 2
          /\ calls[p].op = "create_chunks"
          /\ calls[p - 1].op = "add_vectors"
          /\ calls[p - 2].op = "embed"
          /\ p < Len(calls)

\* C27: create_chunks of a file either raises or returns at least one
\* chunk, so the flag that ends fill_rag's loop is cleared only when the
\* generator is exhausted: when the loop has ended, every accepted file was
\* handed to create_chunks, in order, and every sized chunk was embedded.
C27_NoFileSkipped ==
    /\ \A i \in DOMAIN fs.files :
          create_chunks(fs.files[i]).error = "none" =>
              create_chunks(fs.files[i]).chunks # <<>>
    /\ (Discovered /\ ~rag.there_is_next_file_to_process) =>
          rag.next_file > Len(rag.file_to_process)
    /\ rag.pc \in {"remaining", "returned"} =>
          /\ [i \in DOMAIN CallsOf("create_chunks") |-> CallsOf("create_chunks")[i].file_path]
                = rag.file_to_process
          /\ Len(CallsOf("embed")) = Len(SizedChunks)

\* fill_rag has returned from two accepted files; the first held one chunk
\* over the token limit, which the enforcer replaced by several, and the
\* second was processed after it.
C27_Witness ==
    /\ rag.pc = "returned"
    /\ Len(rag.file_to_process) = 2
    /\ Len(FileAt(rag.file_to_process[1]).document) = 1
    /\ Len(create_chunks(FileAt(rag.file_to_process[1])).chunks) > 1
    /\ CallsOf("create_chunks")[2].file_path = rag.file_to_process[2]

\* C28: the discovery filter and the splitter registry agree on every path
\* of the source.  Once the files are discovered, a path is among the files
\* to process exactly when the registry has a splitter for it, the PDF
\* splitter for file type pdf and the Markdown splitter for file type md;
\* and the only ValueError of that kind fill_rag ever raises is the one for
\* a source that is neither file nor directory, raised before any file is
\* handed to the registry.
C28_FilterAgreesWithRegistry ==
    /\ (ValidSource /\ Discovered) =>
          \A i \in DOMAIN Paths :
              /\ InList(Paths[i], rag.file_to_process)
                    <=> create_based_on_file_type(Paths[i]) # "ValueError"
              /\ InList(Paths[i], rag.file_to_process) =>
                    create_based_on_file_type(Paths[i]) =
                        IF _determine_file_type(Paths[i]) = <<"p", "d", "f">>
                        THEN "PdfFileSplitter" ELSE "LangChainMDFileSplitter"
    /\ rag.error = "ValueError" =>
          /\ ~ValidSource
          /\ CallsOf("create_chunks") = <<>>

\* fill_rag has returned from a directory with a file 'b.MD ' (upper case, a
\* trailing blank), accepted and given to create_chunks, and a file the
\* filter rejected with a warning.
C28_Witness ==
    /\ rag.pc = "returned"
    /\ fs.kind = "dir"
    /\ \E i \in DOMAIN rag.file_to_process :
          /\ Last(str_split(rag.file_to_process[i], ".")) = <<"M", "D", " ">>
          /\ \E c \in DOMAIN calls :
                /\ calls[c].op = "create_chunks"
                /\ calls[c].file_path = rag.file_to_process[i]
    /\ CallsOf("warning") # <<>>

\* The contents of a list of chunks, and where in the document a text
\* starts: the position of its first character that is one of the document
\* (-1 when it has none).
ContentsOf(chunk_list) == [i \in DOMAIN chunk_list |-> chunk_list[i].content]
DocumentRuns(text) == SelectSeq(text, LAMBDA r : r.c # "R")
FirstPosition(text) == IF DocumentRuns(text) = <<>> THEN -1 ELSE DocumentRuns(text)[1].lo
StartsIn(text, i) ==
    /\ document[i] # <<>>
    /\ FirstPosition(text) >= document[i][1].lo
    /\ FirstPosition(text) < document[i][1].lo + count_chars(document[i])
InWindowOrder(texts) ==
    \A j, k \in DOMAIN texts : j < k => FirstPosition(texts[j]) < FirstPosition(texts[k])

\* What stands in the place of one structural chunk: the text itself when
\* it is within the byte limit, else its byte windows, and in the place of
\* each of these the text itself when it is within the token limit, else its
\* token windows.
ByteWindowsOf(this, text) ==
    IF this.bytes_splitter.none \/ count_bytes(text) <= this.byte_limit THEN <<text>>
    ELSE ContentsOf(BytesSplitter_split_text(this.bytes_splitter, text))
TokenWindowsOf(this, text) ==
    IF this.token_splitter.none \/ count_tokens(text) <= this.token_limit THEN <<text>>
    ELSE ContentsOf(TokenSplitter_split_text(this.token_splitter, text))
InPlaceOf(this, text) ==
    Flatten([w \in DOMAIN ByteWindowsOf(this, text) |->
                TokenWindowsOf(this, ByteWindowsOf(this, text)[w])])

\* C29: the list create_chunks returns keeps document order.  It is, for
\* structural chunk 1, 2, ... in turn, what stands in the place of that
\* chunk: its byte windows in offset order and, in the place of each byte
\* window, its token windows in order; every window list starts further on
\* in the document than the one before; and of two returned chunks that
\* start in different structural chunks the one of the earlier structural
\* chunk comes first.
C29_DocumentOrder ==
    pc.at = "returned" =>
        /\ ContentsOf(list_of_chunks) =
              Flatten([i \in DOMAIN document |-> InPlaceOf(self, document[i])])
        /\ \A i \in DOMAIN document :
              /\ InWindowOrder(ByteWindowsOf(self, document[i]))
              /\ \A w \in DOMAIN ByteWindowsOf(self, document[i]) :
                    InWindowOrder(TokenWindowsOf(self, ByteWindowsOf(self, document[i])[w]))
        /\ \A j, k \in DOMAIN list_of_chunks :
              \A a, b \in DOMAIN document :
                  (/\ StartsIn(list_of_chunks[j].content, a)
                   /\ StartsIn(list_of_chunks[k].content, b)
                   /\ a < b) => j < k

\* Two structural chunks, the first over both limits, the second over the
\* token limit: the first was replaced by several byte windows, each by
\* several token windows, and the windows of the second follow them.
C29_Witness ==
    /\ pc.at = "returned"
    /\ Len(document) = 2
    /\ Len(ByteWindowsOf(self, document[1])) > 1
    /\ Len(TokenWindowsOf(self, ByteWindowsOf(self, document[1])[1])) > 1
    /\ Len(InPlaceOf(self, document[2])) > 1
    /\ Len(list_of_chunks) =
          Len(InPlaceOf(self, document[1])) + Len(InPlaceOf(self, document[2]))

\* The batches flushed before a failure: those of the add_vectors calls
\* that returned (a failed add_vectors call is the last call made).
FlushedBatches ==
    IF rag.pc = "raised" /\ rag.error = "add_vectors"
    THEN SubSeq(Batches, 1, Len(Batches) - 1)
    ELSE Batches
KeysOf(records) == {records[i].key : i \in DOMAIN records}

\* C30: ingestion has no rollback.  When fill_rag has failed while
\* processing a file (the file could not be loaded or gave no chunk, or an
\* embed or add_vectors call failed), the index exists, holds nothing of an
\* earlier ingestion and exactly the records of the batches flushed before
\* the failure, each a full batch of the sized chunks in order; the records
\* of the pending batch, those embedded and not flushed, are not in it.
C30_NoRollback ==
    (rag.pc = "raised" /\ rag.error \in CallErrors) =>
        /\ vector_database.exists
        /\ vector_database.records = Flatten(FlushedBatches)
        /\ \A b \in DOMAIN FlushedBatches : Len(FlushedBatches[b]) = BatchSize
        /\ \A i \in DOMAIN vector_database.records :
              /\ vector_database.records[i].key # 0
              /\ vector_database.records[i].metadata["content"] = SizedChunks[i].content
        /\ KeysOf(rag.embedding_batch) \cap KeysOf(vector_database.records) = {}
        /\ Len(vector_database.records) + Len(rag.embedding_batch)
              = Len(CallsOf("embed")) - (IF rag.error = "embed" THEN 1 ELSE 0)

\* An embed call failed with a record pending and a full batch flushed: the
\* index holds the flushed batch only.
C30_Witness ==
    /\ rag.pc = "raised" /\ rag.error = "embed"
    /\ Len(vector_database.records) = BatchSize
    /\ rag.embedding_batch # <<>>
    /\ Len(CallsOf("create_chunks")) = 2

(***************************************************************************)
(* VectorItem.create_from_file_chunk on its own                            *)
(* (abstract_vector_database.py, specification SpecItem).                  *)
(* The chunk's metadata is a dict of the heap, vector_item.file_chunk      *)
(* refers to it; every item made gets the uuid4 drawn for it as key and    *)
(* refers to the dict the dict display of lines 40-43 builds.              *)
(***************************************************************************)
\* The chunks of the model: the contents and embeddings of the two tests,
\* and every metadata dict with or without a source, a num_tokens and a
\* content item (the old content, or the chunk's own).
ChunkContents == {"chunk content", ""}
ChunkEmbeddings == {<<>>, <<1, 2, 3>>}
Dict(source, num_tokens, content) ==
    [k \in (IF source THEN {"source"} ELSE {})
           \cup (IF num_tokens THEN {NUM_TOKENS_KEY} ELSE {})
           \cup (IF content = "none" THEN {} ELSE {"content"}) |->
        CASE k = "source" -> "file.txt"
          [] k = NUM_TOKENS_KEY -> 2
          [] OTHER -> content]
ChunkMetadatas ==
    {Dict(source, num_tokens, content) :
        source \in BOOLEAN, num_tokens \in BOOLEAN,
        content \in {"none", "old content", "chunk content"}}

InitItem ==
    /\ SettingsImported
    /\ self = AbstractFileSplitter(PATH_TO_FILE, TRUE, TRUE)
    /\ document = <<>>
    /\ pc = At("idle", 0)
    /\ list_of_chunks = <<>>
    /\ prim = IdlePrim
    /\ calls = <<>>
    /\ pdf = IdlePdf
    /\ fs = NoSource
    /\ rag = IdleRag
    /\ vector_database = NoIndex
    /\ s3 = IdleS3
    /\ heap \in {<<metadata>> : metadata \in ChunkMetadatas}
    /\ \E content \in ChunkContents, chunk_embedding \in ChunkEmbeddings :
          vector_item = [status |-> "ready",
                         file_chunk |-> FileChunk(content, 1),
                         chunk_embedding |-> chunk_embedding,
                         items |-> <<>>]

\* Mutant of lines 40-43: the chunk's own dict gets the content item and is
\* handed to the item.
CreateFromFileChunk_InPlace ==
    /\ vector_item.status = "ready"
    /\ Len(vector_item.items) < MaxCalls
    /\ LET file_chunk == vector_item.file_chunk
           item == create_from_file_chunk(
                       FileChunk(file_chunk.content, heap[file_chunk.metadata]),
                       vector_item.chunk_embedding, Len(vector_item.items) + 1)
       IN /\ heap' = [heap EXCEPT ![file_chunk.metadata] = item.metadata]
          /\ vector_item' =
                 [vector_item EXCEPT
                     !.items = Append(@, [item EXCEPT !.metadata = file_chunk.metadata])]
    /\ UNCHANGED <<self, document, pc, list_of_chunks, calls, prim>>
    /\ UNCHANGED <<settingsVars, pdfVars, ragVars, s3>>

\* VectorItem.create_from_file_chunk(file_chunk, chunk_embedding): the dict
\* display makes a new dict, the item refers to it.
CreateFromFileChunk ==
    /\ vector_item.status = "ready"
    /\ Len(vector_item.items) < MaxCalls
    /\ LET file_chunk == vector_item.file_chunk
           item == create_from_file_chunk(
                       FileChunk(file_chunk.content, heap[file_chunk.metadata]),
                       vector_item.chunk_embedding, Len(vector_item.items) + 1)
       IN /\ heap' = Append(heap, item.metadata)
          /\ vector_item' =
                 [vector_item EXCEPT
                     !.items = Append(@, [item EXCEPT !.metadata = Len(heap) + 1])]
    /\ UNCHANGED <<self, document, pc, list_of_chunks, calls, prim>>
    /\ UNCHANGED <<settingsVars, pdfVars, ragVars, s3>>

NextItem == CreateFromFileChunk

SpecItem == InitItem /\ [][NextItem]_vars

\* C21: the record made from a chunk has a metadata map that holds every
\* key of the chunk's metadata, each but content with the chunk's value,
\* and content with the chunk's content (also when the chunk's metadata has
\* a content item of its own); it has the embedding handed in; its map is a
\* new one, and the call leaves the chunk's metadata and every other map as
\* they were.
C21_ItemMetadata ==
    [][vector_item.status = "ready" =>
          LET file_chunk == vector_item.file_chunk
              metadata   == heap[file_chunk.metadata]
              item       == Last(vector_item'.items)
              item_map   == heap'[item.metadata]
          IN /\ Len(vector_item'.items) = Len(vector_item.items) + 1
             /\ DOMAIN item_map = DOMAIN metadata \cup {"content"}
             /\ \A k \in DOMAIN metadata \ {"content"} : item_map[k] = metadata[k]
             /\ item_map["content"] = file_chunk.content
             /\ item.embedding_vector = vector_item.chunk_embedding
             /\ item.metadata \notin DOMAIN heap
             /\ \A ref \in DOMAIN heap : heap'[ref] = heap[ref]
             /\ vector_item'.file_chunk = file_chunk]_vars

\* An item was made from a chunk whose metadata holds a source and another
\* content: the item has the source and the chunk's content, the chunk's
\* metadata still has the other content.
C21_Witness ==
    /\ vector_item.status = "ready"
    /\ vector_item.items # <<>>
    /\ heap[1] = Dict(TRUE, FALSE, "old content")
    /\ vector_item.file_chunk = FileChunk("chunk content", 1)
    /\ heap[vector_item.items[1].metadata] =
           [source |-> "file.txt", content |-> "chunk content"]

(***************************************************************************)
(* RagDriver.find_in_rag (rag_driver.py, specification SpecFind).          *)
(* rag.vector_database is the class of the driver's vector store: the      *)
(* S3VectorBucketIndex the factory builds, or an object put in its place   *)
(* (the MagicMock of test_find_in_rag_returns_results), whose query_vectors *)
(* hands back any list of raw results.  What query_vectors hands back is   *)
(* [none, list]: None, or a list.                                          *)
(***************************************************************************)
RagQueryResult(key, score, metadata) == [key |-> key, score |-> score, metadata |-> metadata]

\* Mutant of lines 146-152: the results are handed back last first.
RagQueryResults_Reversed(results) ==
    [i \in DOMAIN results |->
        RagQueryResult(results[Len(results) + 1 - i]["key"],
                       results[Len(results) + 1 - i]["distance"],
                       results[Len(results) + 1 - i]["metadata"])]

\* Lines 146-152: one RagQueryResult per raw result.
RagQueryResults(results) ==
    [i \in DOMAIN results |->
        RagQueryResult(results[i]["key"], results[i]["distance"], results[i]["metadata"])]

\* S3VectorBucketIndex.query_vectors: its body is pass; it sends no request
\* and hands back None.
S3VectorBucketIndex_query_vectors(query_vector, top_k) == [none |-> TRUE, list |-> <<>>]

\* The queries, and the raw results a store may hand back (distances in
\* tenths): any list of up to MaxResults of them, in any order.
Queries == {"query", "What is Lake Formation?", ""}
TopKs == {1, 2, 5}
RawResults ==
    {[key |-> "k1", distance |-> 1, metadata |-> [foo |-> "bar"]],
     [key |-> "k2", distance |-> 2, metadata |-> [baz |-> "qux"]]}
ResultLists == UNION {[1..n -> RawResults] : n \in 0..MaxResults}
VectorDatabases == {"S3VectorBucketIndex", "MagicMock"}

InitFind ==
    /\ SettingsImported
    /\ NoCreateChunks
    /\ calls = <<>>
    /\ pdf = IdlePdf
    /\ fs = NoSource
    /\ vector_database = NoIndex
    /\ s3 = IdleS3
    /\ vector_item = IdleItem
    /\ \E query \in Queries, top_k \in TopKs, database \in VectorDatabases :
          rag = [pc |-> "find_in_rag", error |-> "none",
                 vector_database |-> database,
                 query |-> query, top_k |-> top_k,
                 query_embedding |-> embed(""),
                 results |-> [none |-> TRUE, list |-> <<>>],
                 returned |-> <<>>]

\* Line 144: the query is embedded; embed may fail.
FindEmbed ==
    /\ rag.pc = "find_in_rag"
    /\ calls' = Append(calls, [op |-> "embed", text |-> rag.query])
    /\ \/ rag' = Raise("embed")
       \/ rag' = [rag EXCEPT !.pc = "query_vectors", !.query_embedding = embed(rag.query)]
    /\ UNCHANGED <<chunkVars, prim, settingsVars, pdfVars, storeVars, fs, vector_database>>

\* Lines 145-152: the store is queried and its results are mapped.  The
\* S3VectorBucketIndex hands back None, and iterating over it raises
\* TypeError; another store may fail or hand back a list.
FindQueryVectors ==
    /\ rag.pc = "query_vectors"
    /\ calls' = Append(calls, [op |-> "query_vectors",
                               query_vector |-> rag.query_embedding,
                               top_k |-> rag.top_k])
    /\ \/ /\ rag.vector_database = "S3VectorBucketIndex"
          /\ LET results == S3VectorBucketIndex_query_vectors(rag.query_embedding, rag.top_k)
             IN rag' = IF results.none
                       THEN [Raise("TypeError") EXCEPT !.results = results]
                       ELSE [rag EXCEPT !.pc = "returned",
                                        !.results = results,
                                        !.returned = RagQueryResults(results.list)]
       \/ /\ rag.vector_database # "S3VectorBucketIndex"
          /\ \/ rag' = Raise("query_vectors")
             \/ \E list \in ResultLists :
                   rag' = [rag EXCEPT !.pc = "returned",
                                      !.results = [none |-> FALSE, list |-> list],
                                      !.returned = RagQueryResults(list)]
    /\ UNCHANGED <<chunkVars, prim, settingsVars, pdfVars, storeVars, fs, vector_database>>

NextFind == FindEmbed \/ FindQueryVectors

SpecFind == InitFind /\ [][NextFind]_vars

\* C22: find_in_rag, when neither embed nor query_vectors fails, embeds the
\* query once, calls query_vectors once with that vector and the caller's
\* top_k, and returns one record per raw result in the same order, with
\* key = key, score = distance and metadata = metadata.
C22_FindMapsResults ==
    (rag.pc \in {"returned", "raised"} /\ rag.error \notin {"embed", "query_vectors"}) =>
        /\ rag.pc = "returned"
        /\ calls = <<[op |-> "embed", text |-> rag.query],
                     [op |-> "query_vectors", query_vector |-> embed(rag.query),
                      top_k |-> rag.top_k]>>
        /\ ~rag.results.none
        /\ Len(rag.returned) = Len(rag.results.list)
        /\ \A i \in DOMAIN rag.returned :
              /\ rag.returned[i].key = rag.results.list[i].key
              /\ rag.returned[i].score = rag.results.list[i].distance
              /\ rag.returned[i].metadata = rag.results.list[i].metadata

\* What holds of the code: the calls are as claimed whatever the store, and
\* the results are mapped as claimed when the store hands back a list; with
\* None handed back find_in_rag raises TypeError and returns nothing.
C22_FindMapsListResults ==
    /\ Len(CallsOf("embed")) <= 1
    /\ Len(CallsOf("query_vectors")) <= 1
    /\ (rag.pc \in {"returned", "raised"} /\ rag.error \notin {"embed", "query_vectors"}) =>
          /\ calls = <<[op |-> "embed", text |-> rag.query],
                       [op |-> "query_vectors", query_vector |-> embed(rag.query),
                        top_k |-> rag.top_k]>>
          /\ rag.results.none <=> (rag.pc = "raised" /\ rag.error = "TypeError")
          /\ rag.results.none <=> rag.vector_database = "S3VectorBucketIndex"
          /\ rag.pc = "returned" =>
                /\ Len(rag.returned) = Len(rag.results.list)
                /\ \A i \in DOMAIN rag.returned :
                      /\ rag.returned[i].key = rag.results.list[i].key
                      /\ rag.returned[i].score = rag.results.list[i].distance
                      /\ rag.returned[i].metadata = rag.results.list[i].metadata

(***************************************************************************)
(* S3VectorBucketIndex (s3_vector_bucket_index.py, specification SpecS3).  *)
(* s3 is the S3 Vectors service as the boto3 client sees it: whether the   *)
(* vector bucket and the index exist and the vectors the index holds.  A   *)
(* session is a sequence of method calls; each is logged in calls with the *)
(* service as it was before the call, the requests the method sent (and    *)
(* the warnings it logged) in order, the exception it raised and what it   *)
(* handed back.  A request fails only when what it names is not there;     *)
(* for a delete_index request that names no index the service may answer   *)
(* either way.                                                             *)
(***************************************************************************)
None == [none |-> TRUE, list |-> <<>>]
MethodCall(op, args, requests, error, returned) ==
    [op |-> op, args |-> args, before |-> [bucket |-> s3.bucket, index |-> s3.index],
     requests |-> requests, error |-> error, returned |-> returned]

\* The fixture of the tests: S3VectorBucketConfig(dataType="float32", ...).
s3_vector_db_config == [bucket_name |-> "bucket", index_name |-> "index", dataType |-> "float32"]

\* The arguments of the methods in the tests.
QueryVectors == {<<1, 2>>, <<1>>}
VectorLists ==
    {<<>>,
     <<[key |-> "k1", embedding_vector |-> <<1, 2>>, metadata |-> [foo |-> "bar"]],
       [key |-> "k2", embedding_vector |-> <<3, 4>>, metadata |-> [baz |-> "qux"]]>>}

InitS3 ==
    /\ SettingsImported
    /\ NoCreateChunks
    /\ calls = <<>>
    /\ pdf = IdlePdf
    /\ fs = NoSource
    /\ rag = IdleRag
    /\ vector_database = NoIndex
    /\ vector_item = IdleItem
    /\ \E bucket \in BOOLEAN, index \in BOOLEAN :
          /\ index => bucket
          /\ s3 = [status |-> "ready", bucket |-> bucket, index |-> index, vectors |-> <<>>]

\* S3VectorBucketIndex.add_vectors: one put_vectors request.
add_vectors ==
    /\ s3.status = "ready"
    /\ Len(calls) < MaxCalls
    /\ \E vectors \in VectorLists :
          LET request == [op |-> "put_vectors",
                          vectors |-> [i \in DOMAIN vectors |->
                                          [key |-> vectors[i].key,
                                           data |-> (s3_vector_db_config.dataType :>
                                                        vectors[i].embedding_vector),
                                           metadata |-> vectors[i].metadata]]]
          IN IF s3.index
             THEN /\ s3' = [s3 EXCEPT !.vectors = @ \o request.vectors]
                  /\ calls' = Append(calls, MethodCall("add_vectors", <<vectors>>,
                                                       <<request>>, "none", None))
             ELSE /\ s3' = s3
                  /\ calls' = Append(calls, MethodCall("add_vectors", <<vectors>>, <<request>>,
                                                       "NotFoundException", None))
    /\ UNCHANGED <<chunkVars, prim, settingsVars, pdfVars, ragVars, vector_item>>

\* S3VectorBucketIndex.query_vectors: pass.
query_vectors ==
    /\ s3.status = "ready"
    /\ Len(calls) < MaxCalls
    /\ \E query_vector \in QueryVectors, top_k \in TopKs :
          calls' = Append(calls, MethodCall("query_vectors", <<query_vector, top_k>>, <<>>,
                                            "none",
                                            S3VectorBucketIndex_query_vectors(query_vector,
                                                                              top_k)))
    /\ s3' = s3
    /\ UNCHANGED <<chunkVars, prim, settingsVars, pdfVars, ragVars, vector_item>>

\* S3VectorBucketIndex.create_index: the bucket is created when it is not
\* there, the index when it is not there.
create_index ==
    /\ s3.status = "ready"
    /\ Len(calls) < MaxCalls
    /\ LET bucket_requests ==
               IF s3.bucket THEN <<[op |-> "get_vector_bucket"]>>
               ELSE <<[op |-> "get_vector_bucket"], [op |-> "create_vector_bucket"]>>
           index_requests ==
               IF s3.index THEN <<[op |-> "get_index"]>>
               ELSE <<[op |-> "get_index"], [op |-> "create_index"]>>
       IN calls' = Append(calls, MethodCall("create_index", <<>>,
                                            bucket_requests \o index_requests, "none", None))
    /\ s3' = [s3 EXCEPT !.bucket = TRUE, !.index = TRUE]
    /\ UNCHANGED <<chunkVars, prim, settingsVars, pdfVars, ragVars, vector_item>>

\* S3VectorBucketIndex.delete_index: without the bucket a warning and
\* nothing else; with the bucket a delete_index request, whether or not the
\* index is there.
delete_index ==
    /\ s3.status = "ready"
    /\ Len(calls) < MaxCalls
    /\ \/ /\ ~s3.bucket
          /\ s3' = s3
          /\ calls' = Append(calls, MethodCall("delete_index", <<>>,
                                 <<[op |-> "get_vector_bucket"], [op |-> "logger.warning"]>>,
                                 "none", None))
       \/ /\ s3.bucket
          /\ s3' = [s3 EXCEPT !.index = FALSE, !.vectors = <<>>]
          /\ \E error \in IF s3.index THEN {"none"} ELSE {"none", "NotFoundException"} :
                calls' = Append(calls, MethodCall("delete_index", <<>>,
                                       <<[op |-> "get_vector_bucket"], [op |-> "delete_index"]>>,
                                       error, None))
    /\ UNCHANGED <<chunkVars, prim, settingsVars, pdfVars, ragVars, vector_item>>

NextS3 == add_vectors \/ query_vectors \/ create_index \/ delete_index

SpecS3 == InitS3 /\ [][NextS3]_vars

RequestsOf(call, op) == SelectSeq(call.requests, LAMBDA r : r.op = op)

\* C23: every call query_vectors(v, k) has sent exactly one query_vectors
\* request, with query vector v under the configured data type and
\* topK = k, and has handed back a list, never anything else.
C23_QueryVectors ==
    \A i \in DOMAIN calls :
        calls[i].op = "query_vectors" =>
            /\ RequestsOf(calls[i], "query_vectors") =
                   <<[op |-> "query_vectors",
                      queryVector |-> (s3_vector_db_config.dataType :> calls[i].args[1]),
                      topK |-> calls[i].args[2]]>>
            /\ calls[i].error = "none"
            /\ ~calls[i].returned.none

\* C24: a delete_index call made when the bucket or the index is not there
\* sends no delete_index request and raises nothing (and logs a warning for
\* the missing bucket); one made when the index is there sends exactly one;
\* so the second of two delete_index calls in a row succeeds like the first.
C24_DeleteIndexIdempotent ==
    \A i \in DOMAIN calls :
        calls[i].op = "delete_index" =>
            /\ calls[i].error = "none"
            /\ Len(RequestsOf(calls[i], "delete_index")) =
                   (IF calls[i].before.bucket /\ calls[i].before.index THEN 1 ELSE 0)
            /\ ~calls[i].before.bucket => Len(RequestsOf(calls[i], "logger.warning")) = 1

\* What holds of the code: without the bucket delete_index sends no delete
\* request, logs a warning and raises nothing; with the bucket it sends
\* exactly one, index or no index, and raises only what the service answers
\* to a request that names no index.
C24_DeleteUnlessBucketMissing ==
    \A i \in DOMAIN calls :
        calls[i].op = "delete_index" =>
            /\ Len(RequestsOf(calls[i], "delete_index")) =
                   (IF calls[i].before.bucket THEN 1 ELSE 0)
            /\ ~calls[i].before.bucket =>
                   (calls[i].error = "none" /\ Len(RequestsOf(calls[i], "logger.warning")) = 1)
            /\ calls[i].before.index => calls[i].error = "none"

====
